---------------------------- MODULE Spec2Model ----------------------------
(***************************************************************************)
(* A model of the character-card-copilot backend core:                     *)
(*   - the budgeted context builder (context_builder.rs),                  *)
(*   - the session and the session manager (character_session.rs),         *)
(*   - the session commands (backend/application/session_service.rs),      *)
(*   - the tool-call loop (ai_chat.rs).                                    *)
(*                                                                         *)
(* Abstractions.  A text is modelled by its identity and its token count   *)
(* (the tokenizer is taken to be additive over the pieces a text is built  *)
(* from).  Wall-clock time is a counter `clock` that every Utc::now()      *)
(* reads and advances.  Event emission is an outcome that either succeeds  *)
(* or fails.                                                               *)
(***************************************************************************)
EXTENDS Integers, Sequences, FiniteSets, TLC

VARIABLES
    ctxIn,      \* the arguments of the pending build_full_context call
    ctxOut,     \* its BuiltContextResult, None before the call ran
    sessions,   \* SessionManager.sessions: uuid -> CharacterSession
    disk,       \* chat_history.jsonl of every character: uuid -> Seq(ChatMessage)
    cards,      \* the card file of every character: uuid -> character_book.entries
    op,         \* per task: the command it runs, its position and its locals
    clock,      \* the wall clock
    nextText,   \* the next fresh text the environment supplies
    started,    \* number of commands started so far
    ghost       \* history variables the properties read, never the code

ctxVars == <<ctxIn, ctxOut>>
mgrVars == <<sessions, disk, cards, op, clock, nextText, started, ghost>>
vars == <<ctxIn, ctxOut, sessions, disk, cards, op, clock, nextText, started, ghost>>

-----------------------------------------------------------------------------
(* Bounds of the model *)

TokenUnit == 10240      \* granularity of the token counts of generated texts
MaxItems == 3           \* knowledge entries + history turns of a generated context input
MaxStarted == 3         \* commands started in one behaviour
NumChars == 3           \* character ids of the pool specification
max_sessions == 2       \* SessionManager::new(max_sessions); the global instance uses 10

-----------------------------------------------------------------------------
(* Generic helpers *)

Range(s) == {s[i] : i \in 1..Len(s)}

RECURSIVE SumSeq(_)
SumSeq(s) == IF s = <<>> THEN 0 ELSE Head(s) + SumSeq(Tail(s))

\* Rust's Option: None is the empty sequence, Some(x) the sequence of x.
None == <<>>
Some(x) == <<x>>
Unwrap(o) == o[1]

RemoveAt(s, i) == SubSeq(s, 1, i - 1) \o SubSeq(s, i + 1, Len(s))

Front(s) == SubSeq(s, 1, Len(s) - 1)

Last(s) == s[Len(s)]

\* All sequences over S of length at most n.
SeqUpTo(S, n) == UNION {[1..k -> S] : k \in 0..n}

-----------------------------------------------------------------------------
(* backend/domain/sessions/config.rs: TokenBudget::default, ContextBuilderOptions *)

total_limit == 102400
system_reserved == (total_limit * 15) \div 100
character_reserved == (total_limit * 35) \div 100
worldbook_reserved == (total_limit * 20) \div 100
history_reserved == (total_limit * 30) \div 100
token_limit == 102400

-----------------------------------------------------------------------------
(* context_builder.rs *)

\* count_tokens of a text: the text's token count.
count_tokens(text) == text.tokens

\* count_message_tokens: the token count of the serialized message.
count_message_tokens(message) == message.content.tokens

count_messages_tokens(messages) ==
    SumSeq([i \in 1..Len(messages) |-> count_message_tokens(messages[i])])

\* Tokens of the single system message build_system_messages renders from the
\* fixed role/task/tools/instructions template.
SystemPromptTokens == 350

\* Tokens of the two lines every rendered world book starts with
\* ("  total_entries: N\n" and "  entries:\n"); the optional header fields
\* (name, description, scan_depth, ...) are absent in the generated books.
WorldbookHeaderTokens == 10

\* f64::log10 on the word counts the model uses (powers of ten); log10(0)
\* is f64's negative infinity, a value below every finite score.
NegativeInfinity == 0 - 1000000

Log10(n) == IF n >= 100 THEN 2 ELSE IF n >= 10 THEN 1 ELSE IF n >= 1 THEN 0
            ELSE NegativeInfinity

\* serde_json's Value::as_u64 on the serialized priority: the number if it is
\* a non-negative integer, nothing for null and for a negative number.
as_u64(value) == IF value # None /\ Unwrap(value) >= 0 THEN value ELSE None

\* A score that counts the keywords and the words only.
calculate_entry_importance_unweighted(entry) ==
    10
    + entry.keys * 3
    + (IF entry.words > 0 THEN Log10(entry.words) * 2 ELSE 0)

\* calculate_entry_importance, in tenths (word counts are powers of ten, so
\* that log10 is an integer). entry.keys is the number of keywords and
\* entry.words the number of whitespace-separated words of the content.
calculate_entry_importance(entry) ==
    10
    + (IF entry.enabled THEN 20 ELSE 0)
    + (IF as_u64(entry.priority) # None THEN Unwrap(as_u64(entry.priority)) * 5 ELSE 0)
    + entry.keys * 3
    + (IF entry.words > 0 THEN Log10(entry.words) * 2 ELSE 0)

\* ProcessedWorldBookEntry of one entry (the loop of lines 304-316).
process_entry(entry) ==
    [entry |-> entry,
     token_count |-> entry.tokens,
     importance_score |-> calculate_entry_importance(entry)]

\* An insertion that puts p in front of the elements of its own score.
RECURSIVE InsertByScoreUnstable(_, _)
InsertByScoreUnstable(sorted, p) ==
    IF sorted = <<>> THEN <<p>>
    ELSE IF Head(sorted).importance_score > p.importance_score
         THEN <<Head(sorted)>> \o InsertByScoreUnstable(Tail(sorted), p)
         ELSE <<p>> \o sorted

\* Insert p behind every element whose score is >= its own: the stable
\* descending sort_by of line 319.
RECURSIVE InsertByScore(_, _)
InsertByScore(sorted, p) ==
    IF sorted = <<>> THEN <<p>>
    ELSE IF Head(sorted).importance_score >= p.importance_score
         THEN <<Head(sorted)>> \o InsertByScore(Tail(sorted), p)
         ELSE <<p>> \o sorted

RECURSIVE sort_by_importance(_)
sort_by_importance(processed) ==
    IF processed = <<>> THEN <<>>
    ELSE InsertByScore(sort_by_importance(Front(processed)), Last(processed))

\* The inclusion loop of lines 322-332: an entry that does not fit is skipped
\* and the loop goes on with the next one.
RECURSIVE include_entries(_, _, _)
include_entries(ranked, used_tokens, reserved) ==
    IF ranked = <<>> THEN <<>>
    ELSE IF used_tokens + Head(ranked).token_count <= reserved
         THEN <<Head(ranked)>>
              \o include_entries(Tail(ranked), used_tokens + Head(ranked).token_count, reserved)
         ELSE include_entries(Tail(ranked), used_tokens, reserved)

ranked_entries(character_book) ==
    sort_by_importance([i \in 1..Len(character_book.entries) |->
                            process_entry(character_book.entries[i])])

\* build_worldbook_content: the rendered entries, in order, and the rendered
\* text (header lines, then every included entry in full).
build_worldbook_content(character_book) ==
    LET included == include_entries(ranked_entries(character_book), 0, worldbook_reserved)
    IN [entries |-> included,
        content |-> [tokens |-> WorldbookHeaderTokens
                                + SumSeq([i \in 1..Len(included) |-> included[i].token_count])]]

\* build_assistant_messages: (rendered world book, character_tokens, worldbook_tokens).
build_assistant_messages(character_data) ==
    LET character_tokens == count_tokens(character_data.character_content)
    IN IF character_data.character_book # None
       THEN LET wb == build_worldbook_content(Unwrap(character_data.character_book))
            IN [worldbook |-> wb.entries,
                character_tokens |-> character_tokens,
                worldbook_tokens |-> count_tokens(wb.content)]
       ELSE [worldbook |-> <<>>,
             character_tokens |-> character_tokens,
             worldbook_tokens |-> 0]

\* A walk that passes over a message that does not fit instead of stopping.
RECURSIVE history_walk_skipping(_, _, _, _)
history_walk_skipping(chat_history, i, used_tokens, limit) ==
    IF i = 0 THEN <<>>
    ELSE LET message_tokens == count_message_tokens(chat_history[i])
         IN IF used_tokens + message_tokens <= limit
            THEN history_walk_skipping(chat_history, i - 1, used_tokens + message_tokens, limit)
                 \o <<chat_history[i]>>
            ELSE history_walk_skipping(chat_history, i - 1, used_tokens, limit)

\* build_history_messages: walk the log from its end, stop at the first
\* message that does not fit.
RECURSIVE history_walk(_, _, _, _)
history_walk(chat_history, i, used_tokens, limit) ==
    IF i = 0 THEN <<>>
    ELSE LET message_tokens == count_message_tokens(chat_history[i])
         IN IF used_tokens + message_tokens <= limit
            THEN history_walk(chat_history, i - 1, used_tokens + message_tokens, limit)
                 \o <<chat_history[i]>>
            ELSE <<>>

build_history_messages(chat_history, limit) ==
    history_walk(chat_history, Len(chat_history), 0, limit)

\* A build that also raises the flag when it dropped history turns.
build_full_context_flagging_drops(character_data, chat_history, current_user_message) ==
    LET system_tokens == SystemPromptTokens
        am == build_assistant_messages(character_data)
        history_messages == build_history_messages(chat_history, history_reserved)
        history_tokens == count_messages_tokens(history_messages)
        current_tokens == IF current_user_message # None
                          THEN count_tokens(Unwrap(current_user_message)) ELSE 0
        total == system_tokens + am.character_tokens + am.worldbook_tokens
                 + history_tokens + current_tokens
    IN [worldbook |-> am.worldbook,
        history_messages |-> history_messages,
        current_user_message |-> current_user_message,
        total_tokens |-> total,
        token_allocation |-> [character |-> am.character_tokens,
                              worldbook |-> am.worldbook_tokens,
                              system |-> system_tokens,
                              history |-> history_tokens],
        was_truncated |-> total > token_limit \/ Len(history_messages) < Len(chat_history)]

build_full_context(character_data, chat_history, current_user_message) ==
    LET system_tokens == SystemPromptTokens
        am == build_assistant_messages(character_data)
        history_messages == build_history_messages(chat_history, history_reserved)
        history_tokens == count_messages_tokens(history_messages)
        current_tokens == IF current_user_message # None
                          THEN count_tokens(Unwrap(current_user_message)) ELSE 0
        total == system_tokens + am.character_tokens + am.worldbook_tokens
                 + history_tokens + current_tokens
    IN [worldbook |-> am.worldbook,
        history_messages |-> history_messages,
        current_user_message |-> current_user_message,
        total_tokens |-> total,
        token_allocation |-> [character |-> am.character_tokens,
                              worldbook |-> am.worldbook_tokens,
                              system |-> system_tokens,
                              history |-> history_tokens],
        was_truncated |-> total > token_limit]

-----------------------------------------------------------------------------
(* The context builder applied to generated inputs *)

ChatMessage(role, content, tool_calls, tool_call_id) ==
    [role |-> role, content |-> content, tool_calls |-> tool_calls,
     tool_call_id |-> tool_call_id]

Text(id, tokens) == [id |-> id, tokens |-> tokens]

\* Generated knowledge entries: entry i of a book has id i.
GenEntryShapes ==
    [tokens : {TokenUnit, 2 * TokenUnit}, enabled : BOOLEAN,
     priority : {None, Some(2)}]

GenBook(shapes) ==
    [entries |-> [i \in 1..Len(shapes) |->
                    [id |-> i, tokens |-> shapes[i].tokens, enabled |-> shapes[i].enabled,
                     priority |-> shapes[i].priority, keys |-> 0, words |-> 1]]]

\* Generated turn logs: turn i carries text i.
GenHistory(sizes) ==
    [i \in 1..Len(sizes) |->
        ChatMessage(IF i % 2 = 1 THEN "user" ELSE "assistant", Text(i, sizes[i]), None, None)]

\* The books with k entries; without entries the book may also be absent.
GenBooks(k) ==
    {Some(GenBook(e)) : e \in [1..k -> GenEntryShapes]} \cup (IF k = 0 THEN {None} ELSE {})

\* The inputs with at most MaxItems entries and turns together.
GenInputs ==
    UNION {{[character_data |-> [character_content |-> Text(0, p), character_book |-> b],
             chat_history |-> GenHistory(h),
             current_user_message |-> None] :
                p \in {TokenUnit, 4 * TokenUnit},
                b \in GenBooks(k),
                h \in SeqUpTo({TokenUnit, 2 * TokenUnit}, MaxItems - k)} : k \in 0..MaxItems}

BuildContext ==
    /\ ctxOut = None
    /\ ctxOut' = Some(build_full_context(ctxIn.character_data, ctxIn.chat_history,
                                     ctxIn.current_user_message))
    /\ UNCHANGED <<ctxIn, mgrVars>>

\* No session, no history file, no command.
InitMgrIdle ==
    /\ sessions = [u \in {} |-> 0]
    /\ disk = [u \in {} |-> <<>>]
    /\ cards = [u \in {} |-> <<>>]
    /\ op = [p \in {} |-> 0]
    /\ clock = 0
    /\ nextText = 0
    /\ started = 0
    /\ ghost = [expect |-> [u \in {} |-> <<>>], failed |-> FALSE,
                writes |-> [u \in {} |-> 0]]

InitCtx ==
    /\ ctxIn \in GenInputs
    /\ ctxOut = None
    /\ InitMgrIdle

NextCtx == BuildContext

SpecCtx == InitCtx /\ [][NextCtx]_vars

\* Inputs for the totals: a small or a large persona, books of enabled
\* entries without priority, logs, and a pending user message or none.
TotalBooks ==
    GenBooks(0) \cup
    UNION {{Some(GenBook(e)) :
                e \in [1..k -> [tokens : {TokenUnit, 2 * TokenUnit}, enabled : {TRUE},
                                priority : {None}]]} : k \in 1..(MaxItems - 1)}

TotalInputs ==
    {[character_data |-> [character_content |-> Text(0, p), character_book |-> b],
      chat_history |-> GenHistory(h),
      current_user_message |-> m] :
        p \in {TokenUnit, 6 * TokenUnit},
        b \in TotalBooks,
        h \in SeqUpTo({TokenUnit, 2 * TokenUnit}, MaxItems - 1),
        m \in {None, Some(Text(9, TokenUnit))}}

InitTotal ==
    /\ ctxIn \in TotalInputs
    /\ ctxOut = None
    /\ InitMgrIdle

SpecTotal == InitTotal /\ [][NextCtx]_vars

\* Logs that hold a tool round as the front end stores it (save_chat_message):
\* plain turns, the assistant message with the directive, the tool message
\* answering it, plain turns the last of which is the user's (the log
\* generate_ai_response is called with).
ToolLogs ==
    {GenHistory(before)
        \o <<[role |-> "assistant", content |-> Text(7, size),
              tool_calls |-> Some(<<[id |-> 7, name |-> "edit_character",
                                     arguments_ok |-> TRUE]>>),
              tool_call_id |-> None],
             [role |-> "tool", content |-> Text(8, TokenUnit), tool_calls |-> None,
              tool_call_id |-> Some(7)]>>
        \o GenHistory(after) :
            before \in SeqUpTo({TokenUnit, 2 * TokenUnit}, MaxItems - 1),
            size \in {TokenUnit, 2 * TokenUnit},
            after \in {a \in SeqUpTo({TokenUnit, 2 * TokenUnit}, MaxItems) : Len(a) % 2 = 1}}

InitHistory ==
    /\ ctxIn \in {[character_data |-> [character_content |-> Text(0, TokenUnit),
                                       character_book |-> None],
                   chat_history |-> log,
                   current_user_message |-> None] : log \in ToolLogs}
    /\ ctxOut = None
    /\ InitMgrIdle

SpecHistory == InitHistory /\ [][NextCtx]_vars

\* The scorer applied to single entries: ctxIn is the entry, ctxOut its score.
\* The contents are the empty one, one of blanks only, and texts of 1, 10 and
\* 100 words (chars is the length of the content).
MaxKeys == 2

ScoreContents ==
    {[chars |-> 0, words |-> 0], [chars |-> 3, words |-> 0]}
        \cup {[chars |-> 2 * w, words |-> w] : w \in {1, 10, 100}}

ScoreEntries ==
    {[id |-> 1, tokens |-> TokenUnit, enabled |-> e, priority |-> p, keys |-> k,
      chars |-> c.chars, words |-> c.words] :
        e \in BOOLEAN, p \in {None, Some(0 - 2), Some(0), Some(3)}, k \in 0..MaxKeys,
        c \in ScoreContents}

InitScore ==
    /\ ctxIn \in ScoreEntries
    /\ ctxOut = None
    /\ InitMgrIdle

ScoreEntry ==
    /\ ctxOut = None
    /\ ctxOut' = Some(calculate_entry_importance(ctxIn))
    /\ UNCHANGED <<ctxIn, mgrVars>>

NextScore == ScoreEntry

SpecScore == InitScore /\ [][NextScore]_vars

-----------------------------------------------------------------------------
(* character_session.rs: CharacterSession *)

CharNames == <<"c1", "c2", "c3", "c4", "c5">>
Uuids == {CharNames[i] : i \in 1..NumChars}
Tasks == {1, 2}

\* A load that takes every loaded message for unsaved.
load_unsaved(uuid, history, now) ==
    [uuid |-> uuid,
     chat_history |-> history,
     last_active |-> now,
     status |-> "Active",
     last_saved_index |-> 0]

\* CharacterSession::load: the persona must exist and the history file must
\* be readable (the caller gives up otherwise); the log is the durable
\* history and the cursor its length.
load(uuid, history, now) ==
    [uuid |-> uuid,
     chat_history |-> history,
     last_active |-> now,
     status |-> "Active",
     last_saved_index |-> Len(history)]

add_user_message(session, content, now) ==
    [session EXCEPT
        !.chat_history = Append(@, ChatMessage("user", content, None, None)),
        !.last_active = now]

add_assistant_message(session, content, tool_calls, now) ==
    [session EXCEPT
        !.chat_history = Append(@, ChatMessage("assistant", content, tool_calls, None)),
        !.last_active = now]

add_tool_message(session, content, tool_call_id, now) ==
    [session EXCEPT
        !.chat_history = Append(@, ChatMessage("tool", content, None, Some(tool_call_id))),
        !.last_active = now]

\* A clear_history that leaves the cursor where it was.
clear_history_keeping_cursor(session, now) ==
    [session EXCEPT !.chat_history = <<>>, !.last_active = now]

clear_history(session, now) ==
    [session EXCEPT !.chat_history = <<>>, !.last_saved_index = 0, !.last_active = now]

\* delete_message, edit_message and delete_last_message past their range
\* checks; indices count from 0 as in the code.
delete_message(session, index, now) ==
    [session EXCEPT !.chat_history = RemoveAt(@, index + 1), !.last_active = now]

\* An edit_message that puts a new user message in the place of the old one.
edit_message_as_user(session, index, new_content, now) ==
    [session EXCEPT !.chat_history[index + 1] = ChatMessage("user", new_content, None, None),
                    !.last_active = now]

edit_message(session, index, new_content, now) ==
    [session EXCEPT !.chat_history[index + 1].content = new_content, !.last_active = now]

delete_last_message(session, now) ==
    [session EXCEPT !.chat_history = Front(@), !.last_active = now]

-----------------------------------------------------------------------------
(* character_session.rs: SessionManager (every operator runs under the lock) *)

MapInsert(map, key, value) ==
    [k \in DOMAIN map \cup {key} |-> IF k = key THEN value ELSE map[k]]

MapRemove(map, key) == [k \in DOMAIN map \ {key} |-> map[k]]

\* A cleanup that drops the session used last.
cleanup_newest_session(map) ==
    IF DOMAIN map = {} THEN map
    ELSE MapRemove(map, CHOOSE u \in DOMAIN map :
                            \A v \in DOMAIN map : map[u].last_active >= map[v].last_active)

\* cleanup_old_sessions: drop the session with the least last_active.
cleanup_old_sessions(map) ==
    IF DOMAIN map = {} THEN map
    ELSE MapRemove(map, CHOOSE u \in DOMAIN map :
                            \A v \in DOMAIN map : map[u].last_active <= map[v].last_active)

\* get_or_create_session up to the load: the map after the capacity check.
after_capacity_check(map) ==
    IF Cardinality(DOMAIN map) >= max_sessions THEN cleanup_old_sessions(map) ELSE map

\* An update that appends to the stored log the messages of the copy that the
\* stored log lacks, instead of replacing the stored session.
update_session_merging(map, session) ==
    IF session.uuid \notin DOMAIN map THEN MapInsert(map, session.uuid, session)
    ELSE LET stored == map[session.uuid].chat_history
         IN MapInsert(map, session.uuid,
                [session EXCEPT !.chat_history =
                    stored \o SelectSeq(session.chat_history,
                                        LAMBDA m : m \notin Range(stored))])

\* An update that leaves a session already in the map as it is.
update_session_if_absent(map, session) ==
    IF session.uuid \in DOMAIN map THEN map ELSE MapInsert(map, session.uuid, session)

update_session(map, session) == MapInsert(map, session.uuid, session)

remove_session(map, uuid) == MapRemove(map, uuid)

-----------------------------------------------------------------------------
(* Tasks: one command of session_service.rs at a time, step by step *)

\* A limit checked one iteration late.
max_iterations_late == 5 + 1

max_iterations == 5

IdleOp ==
    [kind |-> "idle",       \* the command
     uuid |-> "",           \* the active character it works on
     todo |-> <<>>,         \* the steps still to run, the next one first
     result |-> "none",     \* once it ended: "ok", "err", "request" (the provider call
                            \* failed), "cap" (loop limit) or "panic"
     s |-> None,            \* the command's own copy of the session
     index |-> 0,           \* edit/delete: the message index
     text |-> None,         \* send/edit: the text given by the user
     written |-> 0,         \* save_history: messages written so far by the running call
     iteration |-> 0,       \* create_chat_completion: iteration
     requests |-> 0,        \* requests sent to the provider
     request |-> <<>>,      \* create_chat_completion: request.messages (history part)
     pushed |-> <<>>,       \* messages pushed onto `messages` by the loop
     response |-> None,     \* the ChatCompletionResponse returned
     only_calls |-> TRUE,   \* history: every reply so far was a function call
     base |-> 0,            \* history: writes to the stored session before the copy was taken
     log0 |-> <<>>,         \* history: the copy's log when generate_ai_response began,
                            \* for a caller when the method called last was called
     tool |-> None,         \* execute_tool_call: the ToolCallRequest
     tool_result |-> None,  \* execute_tool_call: the ToolResult returned
     executed |-> <<>>,     \* history: the directives the loop has handled, with the
                            \* outcome of the tool each one ran
     called |-> "",         \* history: the session method called last
     returned |-> "none",   \* history: what that call returned, "ok" or "err"
     retry |-> FALSE,       \* history: this save_history follows one that failed after
                            \* it had written some of the unsaved messages (to a
                            \* file that held the saved part of the log)
     removed |-> FALSE,     \* history: a message was removed from the copy's log
     locked |-> FALSE,      \* the task holds the mutex of SESSION_MANAGER.sessions
     reading |-> FALSE,     \* the task holds a read lock on TOOL_REGISTRY
     tool_opt |-> None,     \* execute_tool_call_global: tool_opt
     event_failed |-> FALSE, \* history: the command ended because an event was not sent
     generating |-> FALSE,  \* history: generate_ai_response was entered
     created |-> FALSE,     \* history: get_or_create_session loaded the session
     unloaded |-> None,     \* history: the session remove_session took out of the map
                            \* (with disk0, the history file at that moment)
     evicted |-> {},        \* history: the sessions its capacity check removed
     character_data |-> None, \* create_world_book_entry: the entries of character_data's
                            \* book, the new entry pushed
     new_entry |-> None,    \* create_world_book_entry: new_entry
     stored0 |-> None,      \* history: the stored session when generate_ai_response
                            \* was entered (with log0 and disk0)
     cursor0 |-> 0,         \* history: the cursor when that method was called
     disk0 |-> <<>>]        \* history: the history file when that method was called,
                            \* for a command when it got its copy of the session

Top(p) == IF op[p].todo = <<>> THEN "" ELSE Head(op[p].todo)

Idle(p) == op[p].todo = <<>>

Session(p) == Unwrap(op[p].s)

\* The step on top is done: go on with the next, or end the command.
Done(o) ==
    [o EXCEPT !.todo = Tail(@), !.result = IF Tail(o.todo) = <<>> THEN "ok" ELSE @]

Failed(o, r) == [o EXCEPT !.todo = <<>>, !.result = r]

\* The log the conversation should hold once command o has succeeded.
Expected(log, o) ==
    LET reply == IF o.response = None THEN <<>>
                 ELSE <<ChatMessage("assistant", Unwrap(o.response).content,
                                    Unwrap(o.response).tool_calls, None)>>
    IN CASE o.kind = "send" ->
                log \o <<ChatMessage("user", Unwrap(o.text), None, None)>> \o reply
         [] o.kind = "continue" -> log \o reply
         [] o.kind = "regenerate" -> Front(log) \o reply
         [] o.kind = "edit" /\ o.index < Len(log) ->
                [log EXCEPT ![o.index + 1].content = Unwrap(o.text)]
         [] o.kind = "delete" /\ o.index < Len(log) -> RemoveAt(log, o.index + 1)
         [] OTHER -> log

GhostAfter(g, o) ==
    IF o.result = "ok" /\ ~g.failed
    THEN [g EXCEPT !.expect[o.uuid] = Expected(@, o)]
    ELSE IF o.result # "none" THEN [g EXCEPT !.failed = TRUE]
    ELSE g

\* Task p moves to o.
Step(p, o) ==
    /\ op' = [op EXCEPT ![p] = o]
    /\ ghost' = GhostAfter(ghost, o)

StepWrite(p, o) ==
    /\ op' = [op EXCEPT ![p] = o]
    /\ ghost' = GhostAfter([ghost EXCEPT !.writes[o.uuid] = @ + 1], o)

\* Task p starts command o; a command that comes with a text takes the next
\* fresh one.
Begin(p, o) ==
    /\ Idle(p)
    /\ started < MaxStarted
    /\ started' = started + 1
    /\ op' = [op EXCEPT ![p] = o]
    /\ nextText' = IF o.text # None THEN nextText + 1 ELSE nextText
    /\ UNCHANGED <<ctxVars, cards, sessions, disk, clock, ghost>>

Command(kind, uuid, todo) == [IdleOp EXCEPT !.kind = kind, !.uuid = uuid, !.todo = todo]

GenerateSteps == <<"generate", "loop", "append", "save", "update">>

\* A send_chat_message that asks for the reply before it saves the user
\* message.
BeginSendUnsaved(p, u) ==
    /\ Begin(p, [Command("send", u, <<"get", "add_user">> \o GenerateSteps)
                    EXCEPT !.text = Some(Text(nextText, TokenUnit))])

\* SessionService::send_chat_message
BeginSend(p, u) ==
    /\ Begin(p, [Command("send", u, <<"get", "add_user", "save", "update">> \o GenerateSteps)
                    EXCEPT !.text = Some(Text(nextText, TokenUnit))])

\* SessionService::continue_chat
BeginContinue(p, u) ==
    /\ Begin(p, Command("continue", u, <<"get", "check_continue">> \o GenerateSteps))

\* SessionService::regenerate_last_message
BeginRegenerate(p, u) ==
    /\ Begin(p, Command("regenerate", u,
                        <<"get", "check_last", "rewrite", "check_user", "update">>
                        \o GenerateSteps))

\* SessionService::edit_chat_message
BeginEdit(p, u, index) ==
    /\ Begin(p, [Command("edit", u, <<"get", "edit", "rewrite", "update">>)
                    EXCEPT !.index = index, !.text = Some(Text(nextText, TokenUnit))])

\* SessionService::delete_chat_message
BeginDelete(p, u, index) ==
    /\ Begin(p, [Command("delete", u, <<"get", "delete", "rewrite", "update">>)
                    EXCEPT !.index = index])

\* SessionService::load_session
BeginLoad(p, u) ==
    /\ Begin(p, Command("load", u, <<"get", "notify">>))

\* SessionService::unload_session
BeginUnload(p, u) ==
    /\ Begin(p, Command("unload", u, <<"peek", "save", "update", "remove">>))

\* get_or_create_session, the session is in the map: a copy of it.
GetExisting(p) ==
    /\ Top(p) = "get"
    /\ op[p].uuid \in DOMAIN sessions
    /\ Step(p, Done([op[p] EXCEPT !.s = Some(sessions[op[p].uuid]),
                                  !.base = ghost.writes[op[p].uuid],
                                  !.disk0 = disk[op[p].uuid]]))
    /\ UNCHANGED <<ctxVars, cards, sessions, disk, clock, nextText, started>>

\* get_or_create_session, the session is not in the map: capacity check,
\* load, insert.
GetCreated(p) ==
    /\ Top(p) = "get"
    /\ op[p].uuid \notin DOMAIN sessions
    /\ LET created == load(op[p].uuid, disk[op[p].uuid], clock)
       IN /\ sessions' = MapInsert(after_capacity_check(sessions), created.uuid, created)
          /\ StepWrite(p, Done([op[p] EXCEPT
                    !.s = Some(created),
                    !.base = ghost.writes[op[p].uuid] + 1,
                    !.created = TRUE,
                    !.disk0 = disk[op[p].uuid],
                    !.evicted = DOMAIN sessions \ DOMAIN after_capacity_check(sessions)]))
    /\ clock' = clock + 1
    /\ UNCHANGED <<ctxVars, cards, disk, nextText, started>>

\* get_or_create_session, the session is not in the map and
\* CharacterSession::load returns an error.
GetLoadFails(p) ==
    /\ Top(p) = "get"
    /\ op[p].uuid \notin DOMAIN sessions
    /\ sessions' = after_capacity_check(sessions)
    /\ Step(p, Failed([op[p] EXCEPT
                !.evicted = DOMAIN sessions \ DOMAIN after_capacity_check(sessions)], "err"))
    /\ UNCHANGED <<ctxVars, cards, disk, clock, nextText, started>>

\* get_session (unload_session): a copy if the session is in the map.
Peek(p) ==
    /\ Top(p) = "peek"
    /\ IF op[p].uuid \in DOMAIN sessions
       THEN Step(p, Done([op[p] EXCEPT !.s = Some(sessions[op[p].uuid]),
                                       !.base = ghost.writes[op[p].uuid]]))
       ELSE Step(p, [op[p] EXCEPT !.todo = <<"remove">>])
    /\ UNCHANGED <<ctxVars, cards, sessions, disk, clock, nextText, started>>

\* add_user_message, then the message-sent event.
AddUser(p) ==
    /\ Top(p) = "add_user"
    /\ \/ /\ Step(p, Done([op[p] EXCEPT
                    !.s = Some(add_user_message(Session(p), Unwrap(op[p].text), clock))]))
       \/ /\ Step(p, Failed([op[p] EXCEPT
                    !.s = Some(add_user_message(Session(p), Unwrap(op[p].text), clock)),
                    !.event_failed = TRUE],
                    "err"))
    /\ clock' = clock + 1
    /\ UNCHANGED <<ctxVars, cards, sessions, disk, nextText, started>>

\* A save_history that writes the whole log every time.
unsaved_messages_all(session) == session.chat_history

\* save_history: unsaved_messages, the slice of the log from the cursor on.
unsaved_messages(session) ==
    SubSeq(session.chat_history, session.last_saved_index + 1, Len(session.chat_history))

\* The method a caller called returns r.
Returns(o, r) == [o EXCEPT !.returned = IF o.kind = "caller" THEN r ELSE @]

\* A failed save_history that has moved the cursor to the end of the log.
SaveFailedAdvancing(o) ==
    [o EXCEPT !.todo = <<"call">>, !.written = 0, !.returned = "err",
              !.s[1].last_saved_index = Len(o.s[1].chat_history)]

\* The command ends in error when save_history fails, except unload_session,
\* which logs the error and goes on to remove the session.
SaveFailed(o) ==
    IF o.kind = "unload" THEN [o EXCEPT !.todo = <<"remove">>, !.written = 0]
    ELSE IF o.kind = "caller"
         THEN [o EXCEPT !.todo = <<"call">>, !.written = 0, !.returned = "err"]
    ELSE Failed(o, "err")

\* save_history with nothing unsaved: the cursor is set to the log length.
SaveNothing(p) ==
    /\ Top(p) = "save"
    /\ Session(p).last_saved_index = Len(Session(p).chat_history)
    /\ Step(p, Done(Returns(op[p], "ok")))
    /\ UNCHANGED <<ctxVars, cards, sessions, disk, clock, nextText, started>>

\* save_history, one save_message of its loop: the next unsaved message is
\* appended to the history file; behind the last one the cursor is set.
SaveMessage(p) ==
    /\ Top(p) = "save"
    /\ op[p].written < Len(unsaved_messages(Session(p)))
    /\ LET message == unsaved_messages(Session(p))[op[p].written + 1]
           log == Session(p).chat_history
       IN /\ disk' = [disk EXCEPT ![op[p].uuid] = Append(@, message)]
          /\ IF op[p].written + 1 = Len(unsaved_messages(Session(p)))
             THEN Step(p, Done(Returns([op[p] EXCEPT !.s[1].last_saved_index = Len(log),
                                                     !.written = 0], "ok")))
             ELSE Step(p, [op[p] EXCEPT !.written = @ + 1])
    /\ UNCHANGED <<ctxVars, cards, sessions, clock, nextText, started>>

\* save_history, a save_message fails.
SaveMessageFails(p) ==
    /\ Top(p) = "save"
    /\ Session(p).last_saved_index + op[p].written < Len(Session(p).chat_history)
    /\ Step(p, SaveFailed(op[p]))
    /\ UNCHANGED <<ctxVars, cards, sessions, disk, clock, nextText, started>>

\* save_history with the cursor behind the end of the log: the slice
\* chat_history[last_saved_index..] panics.
SavePanics(p) ==
    /\ Top(p) = "save"
    /\ Session(p).last_saved_index > Len(Session(p).chat_history)
    /\ Step(p, Failed(op[p], "panic"))
    /\ UNCHANGED <<ctxVars, cards, sessions, disk, clock, nextText, started>>

\* A rewrite that appends the unsaved messages to the history file.
RewriteAppending(p) ==
    /\ Top(p) = "rewrite"
    /\ disk' = [disk EXCEPT ![op[p].uuid] = @ \o unsaved_messages(Session(p))]
    /\ Step(p, Done(Returns([op[p] EXCEPT
                !.s[1].last_saved_index = Len(Session(p).chat_history)], "ok")))
    /\ UNCHANGED <<ctxVars, cards, sessions, clock, nextText, started>>

\* rewrite_all_history: the history file becomes the log.
Rewrite(p) ==
    /\ Top(p) = "rewrite"
    /\ disk' = [disk EXCEPT ![op[p].uuid] = Session(p).chat_history]
    /\ Step(p, Done(Returns([op[p] EXCEPT
                !.s[1].last_saved_index = Len(Session(p).chat_history)], "ok")))
    /\ UNCHANGED <<ctxVars, cards, sessions, clock, nextText, started>>

RewriteFails(p) ==
    /\ Top(p) = "rewrite"
    /\ Step(p, SaveFailed(op[p]))
    /\ UNCHANGED <<ctxVars, cards, sessions, disk, clock, nextText, started>>

\* SESSION_MANAGER.update_session(session)
Update(p) ==
    /\ Top(p) = "update"
    /\ sessions' = update_session(sessions, Session(p))
    /\ StepWrite(p, Done(op[p]))
    /\ UNCHANGED <<ctxVars, cards, disk, clock, nextText, started>>

\* SESSION_MANAGER.remove_session(uuid), then the unloaded event.
Remove(p) ==
    /\ Top(p) = "remove"
    /\ sessions' = remove_session(sessions, op[p].uuid)
    /\ StepWrite(p, Done([op[p] EXCEPT
                !.unloaded = IF op[p].uuid \in DOMAIN sessions
                             THEN Some(sessions[op[p].uuid]) ELSE None,
                !.disk0 = disk[op[p].uuid]]))
    /\ UNCHANGED <<ctxVars, cards, disk, clock, nextText, started>>

\* load_session: the loaded events.
Notify(p) ==
    /\ Top(p) = "notify"
    /\ \/ Step(p, Done(op[p]))
       \/ Step(p, Failed(op[p], "err"))
    /\ UNCHANGED <<ctxVars, cards, sessions, disk, clock, nextText, started>>

\* edit_chat_message: edit_message with its range check.
Edit(p) ==
    /\ Top(p) = "edit"
    /\ IF op[p].index >= Len(Session(p).chat_history)
       THEN /\ Step(p, Failed(op[p], "err"))
            /\ UNCHANGED clock
       ELSE /\ Step(p, Done([op[p] EXCEPT
                    !.s = Some(edit_message(Session(p), op[p].index, Unwrap(op[p].text), clock))]))
            /\ clock' = clock + 1
    /\ UNCHANGED <<ctxVars, cards, sessions, disk, nextText, started>>

\* delete_chat_message: delete_message with its range check.
Delete(p) ==
    /\ Top(p) = "delete"
    /\ IF op[p].index >= Len(Session(p).chat_history)
       THEN /\ Step(p, Failed(op[p], "err"))
            /\ UNCHANGED clock
       ELSE /\ Step(p, Done([op[p] EXCEPT
                    !.s = Some(delete_message(Session(p), op[p].index, clock))]))
            /\ clock' = clock + 1
    /\ UNCHANGED <<ctxVars, cards, sessions, disk, nextText, started>>

\* regenerate_last_message: the log must end with an assistant message,
\* which delete_last_message removes.
CheckLast(p) ==
    /\ Top(p) = "check_last"
    /\ LET log == Session(p).chat_history
       IN IF log = <<>> \/ Last(log).role # "assistant"
          THEN /\ Step(p, Failed(op[p], "err"))
               /\ UNCHANGED clock
          ELSE /\ Step(p, Done([op[p] EXCEPT
                        !.s = Some(delete_last_message(Session(p), clock))]))
               /\ clock' = clock + 1
    /\ UNCHANGED <<ctxVars, cards, sessions, disk, nextText, started>>

\* regenerate_last_message, after the rewrite: the log must now end with a
\* user message.
CheckUser(p) ==
    /\ Top(p) = "check_user"
    /\ LET log == Session(p).chat_history
       IN IF log = <<>> \/ Last(log).role # "user"
          THEN Step(p, Failed(op[p], "err"))
          ELSE Step(p, Done(op[p]))
    /\ UNCHANGED <<ctxVars, cards, sessions, disk, clock, nextText, started>>

\* A continue_chat that does not look at the log.
CheckContinueAnyLog(p) ==
    /\ Top(p) = "check_continue"
    /\ Step(p, Done(op[p]))
    /\ UNCHANGED <<ctxVars, cards, sessions, disk, clock, nextText, started>>

\* continue_chat: the log must end with a user message.
CheckContinue(p) ==
    /\ Top(p) = "check_continue"
    /\ LET log == Session(p).chat_history
       IN IF log = <<>> \/ Last(log).role # "user"
          THEN Step(p, Failed(op[p], "err"))
          ELSE Step(p, Done(op[p]))
    /\ UNCHANGED <<ctxVars, cards, sessions, disk, clock, nextText, started>>

-----------------------------------------------------------------------------
(* session_service.rs: generate_ai_response, and ai_chat.rs: the tool-call loop *)

\* tools/registry.rs: the names TOOL_REGISTRY registers at start-up; every
\* registered tool is enabled, so these are also the tools a request advertises
\* (get_available_tools_global).
TOOL_REGISTRY == {"edit_character", "create_world_book_entry"}

get_available_tools_global == TOOL_REGISTRY

ToolResult(success, error) == [success |-> success, error |-> error]

\* A tool implementation run on a request: it returns a ToolResult, a success
\* or a failure as the tool decides (tool_ok).
execute(tool_ok) ==
    IF tool_ok THEN ToolResult(TRUE, None) ELSE ToolResult(FALSE, Some("tool failed"))

\* A registry that answers a call of an unknown tool with an empty success.
execute_tool_call_global_silent(tool_name, tool_ok) ==
    IF tool_name \in TOOL_REGISTRY THEN execute(tool_ok) ELSE ToolResult(TRUE, None)

\* ToolRegistry::execute_tool_call_global
execute_tool_call_global(tool_name, tool_ok) ==
    IF tool_name \in TOOL_REGISTRY THEN execute(tool_ok)
    ELSE ToolResult(FALSE, Some("Unknown tool"))

\* AIToolService::execute_tool_call: the match on the tool name.
execute_tool_call(tool_name, tool_ok) ==
    IF tool_name = "edit_character" THEN execute(tool_ok)
    ELSE ToolResult(FALSE, Some("Unknown tool"))

\* A function-call directive of a reply: its id, the tool it names and
\* whether its argument string parses as a string-keyed JSON map.
Directive(id, name, arguments_ok) == [id |-> id, name |-> name, arguments_ok |-> arguments_ok]

\* An execution that does not look at the parse error of the arguments.
execute_single_tool_call_unparsed(call, tool_ok) ==
    LET result == execute_tool_call(call.name, tool_ok)
    IN IF result.success THEN Some(ToolResult(TRUE, None))
       ELSE Some(ToolResult(FALSE, result.error))

\* execute_single_tool_call: the JSON value for one directive.
execute_single_tool_call(call, tool_ok) ==
    IF ~call.arguments_ok
    THEN Some(ToolResult(FALSE, Some("Invalid tool arguments")))
    ELSE LET result == execute_tool_call(call.name, tool_ok)
         IN IF result.success THEN Some(ToolResult(TRUE, None))
            ELSE Some(ToolResult(FALSE,
                        IF result.error # None THEN result.error
                        ELSE Some("Tool execution failed")))

\* serde_json::to_string of a tool result: a text that tells the results apart.
ToolResultText(tool_result) ==
    Text(CASE tool_result.success -> -1
           [] tool_result.error = Some("Invalid tool arguments") -> -3
           [] tool_result.error = Some("Unknown tool") -> -4
           [] OTHER -> -2,
         TokenUnit)

\* convert_response_from_openai: the response create_chat_completion returns
\* is the provider's last reply; it carries no intermediate messages.
our_response(content, tool_calls) ==
    [content |-> content, tool_calls |-> tool_calls, intermediate_messages |-> None]

\* The tool message the loop pushes for one directive.
tool_message(call, tool_ok) ==
    LET tool_result == execute_single_tool_call(call, tool_ok)
    IN ChatMessage("tool",
                   IF tool_result # None THEN ToolResultText(Unwrap(tool_result))
                   ELSE ToolResultText(ToolResult(FALSE, Some("Tool execution failed"))),
                   None, Some(call.id))

\* The messages a reply with function calls pushes onto `messages`: the
\* assistant message, then one tool message per directive, in order;
\* outcomes[i] is what the tool of directive i decides.
push_tool_round(content, calls, outcomes) ==
    <<ChatMessage("assistant", content, Some(calls), None)>>
    \o [i \in 1..Len(calls) |-> tool_message(calls[i], outcomes[i])]

\* generate_ai_response, lines 406-439: the intermediate messages of the
\* response are appended to the session.
RECURSIVE add_intermediate_messages(_, _, _)
add_intermediate_messages(session, msgs, now) ==
    IF msgs = <<>> THEN session
    ELSE LET msg == Head(msgs)
             next == IF msg.role = "assistant" /\ msg.tool_calls # None
                     THEN add_assistant_message(session, msg.content, msg.tool_calls, now)
                     ELSE IF msg.role = "tool" /\ msg.tool_call_id # None
                     THEN add_tool_message(session, msg.content, Unwrap(msg.tool_call_id), now)
                     ELSE session
         IN add_intermediate_messages(next, Tail(msgs), now)

\* generate_ai_response, lines 381-441: the session after the response.
append_response(session, response, now) ==
    add_assistant_message(
        IF response.intermediate_messages # None
        THEN add_intermediate_messages(session, Unwrap(response.intermediate_messages), now)
        ELSE session,
        response.content, response.tool_calls, now)

\* get_session: the stored session of uuid, if there is one.
StoredSession(uuid) == IF uuid \in DOMAIN sessions THEN Some(sessions[uuid]) ELSE None

\* generate_ai_response up to the call of create_chat_completion: the context
\* is built from the log, the context-built event is sent, the API
\* configuration is read.
Generate(p) ==
    /\ Top(p) = "generate"
    /\ \/ Step(p, Done([op[p] EXCEPT
                !.request = build_history_messages(Session(p).chat_history, history_reserved),
                !.pushed = <<>>,
                !.iteration = 0,
                !.generating = TRUE,
                !.stored0 = StoredSession(op[p].uuid),
                !.disk0 = disk[op[p].uuid],
                !.log0 = Session(p).chat_history]))
       \/ Step(p, Failed([op[p] EXCEPT !.generating = TRUE,
                                       !.stored0 = StoredSession(op[p].uuid),
                                       !.disk0 = disk[op[p].uuid],
                                       !.log0 = Session(p).chat_history], "err"))
    /\ UNCHANGED <<ctxVars, cards, sessions, disk, clock, nextText, started>>

\* The head of the loop with the limit reached.
LoopLimit(p) ==
    /\ Top(p) = "loop"
    /\ op[p].iteration >= max_iterations
    /\ Step(p, Failed(op[p], "cap"))
    /\ UNCHANGED <<ctxVars, cards, sessions, disk, clock, nextText, started>>

\* The head of the loop below the limit: the request is built from
\* `messages` and sent.
LoopSend(p) ==
    /\ Top(p) = "loop"
    /\ op[p].iteration < max_iterations
    /\ Step(p, [op[p] EXCEPT !.iteration = @ + 1, !.requests = @ + 1,
                             !.todo = <<"await">> \o Tail(@)])
    /\ UNCHANGED <<ctxVars, cards, sessions, disk, clock, nextText, started>>

\* A failed request that is sent again.
RequestRetried(p) ==
    /\ Top(p) = "await"
    /\ Step(p, [op[p] EXCEPT !.only_calls = FALSE, !.todo = <<"loop">> \o Tail(@)])
    /\ UNCHANGED <<ctxVars, cards, sessions, disk, clock, nextText, started>>

\* The request fails (build error, transport, provider status).
RequestFails(p) ==
    /\ Top(p) = "await"
    /\ Step(p, Failed([op[p] EXCEPT !.only_calls = FALSE], "request"))
    /\ UNCHANGED <<ctxVars, cards, sessions, disk, clock, nextText, started>>

\* A loop that appends the messages of every tool round to the session as
\* soon as the round has run.
ReplyDirectivesAppending(p, calls, outcomes) ==
    /\ Top(p) = "await"
    /\ Step(p, [op[p] EXCEPT
                    !.pushed = @ \o push_tool_round(Text(nextText, TokenUnit), calls, outcomes),
                    !.s = Some(add_intermediate_messages(Session(p),
                                    push_tool_round(Text(nextText, TokenUnit), calls, outcomes),
                                    clock)),
                    !.executed = @ \o [i \in 1..Len(calls) |->
                                        [call |-> calls[i], tool_ok |-> outcomes[i]]],
                    !.todo = <<"loop">> \o Tail(@)])
    /\ nextText' = nextText + Len(calls) + 1
    /\ UNCHANGED <<ctxVars, cards, sessions, disk, clock, started>>

\* The reply carries the directives `calls`: every directive is executed
\* (outcomes[i] is what its tool decides), the results are pushed and the
\* loop goes on.
ReplyDirectives(p, calls, outcomes) ==
    /\ Top(p) = "await"
    /\ Step(p, [op[p] EXCEPT
                    !.pushed = @ \o push_tool_round(Text(nextText, TokenUnit), calls, outcomes),
                    !.executed = @ \o [i \in 1..Len(calls) |->
                                        [call |-> calls[i], tool_ok |-> outcomes[i]]],
                    !.todo = <<"loop">> \o Tail(@)])
    /\ nextText' = nextText + Len(calls) + 1
    /\ UNCHANGED <<ctxVars, cards, sessions, disk, clock, started>>

\* The reply carries n calls of edit_character with well-formed arguments,
\* the tool of directive `failing` (if any) fails.
ReplyToolCalls(p, n, failing) ==
    ReplyDirectives(p,
                    [i \in 1..n |-> Directive(nextText + i, "edit_character", TRUE)],
                    [i \in 1..n |-> i # failing])

\* The reply carries one directive: any tool name, arguments that parse or
\* do not.
ReplyOneDirective(p, name, arguments_ok, tool_ok) ==
    ReplyDirectives(p, <<Directive(nextText + 1, name, arguments_ok)>>, <<tool_ok>>)

\* The reply is a plain message (tool_calls absent or empty): it is returned.
ReplyPlain(p, tool_calls) ==
    /\ Top(p) = "await"
    /\ Step(p, [op[p] EXCEPT
                    !.response = Some(our_response(Text(nextText, TokenUnit), tool_calls)),
                    !.only_calls = FALSE,
                    !.todo = Tail(@)])
    /\ nextText' = nextText + 1
    /\ UNCHANGED <<ctxVars, cards, sessions, disk, clock, started>>

\* generate_ai_response after the call: the response is appended to the
\* session, then the message-received, token-stats and progress events.
AppendResponse(p) ==
    /\ Top(p) = "append"
    /\ LET appended == Some(append_response(Session(p), Unwrap(op[p].response), clock))
       IN \/ Step(p, Done([op[p] EXCEPT !.s = appended]))
          \/ Step(p, Failed([op[p] EXCEPT !.s = appended, !.event_failed = TRUE], "err"))
    /\ clock' = clock + 1
    /\ UNCHANGED <<ctxVars, cards, sessions, disk, nextText, started>>

-----------------------------------------------------------------------------
(* backend/infrastructure/tauri/tool_commands.rs: execute_tool_call *)

\* The command execute_tool_call with a request naming tool_name.
BeginTool(p, tool_name) ==
    /\ Begin(p, [Command("tool", "", <<"execute_tool">>) EXCEPT !.tool = Some(tool_name)])

\* ToolService::execute_tool_call: the registry runs the request.
ExecuteTool(p, tool_ok) ==
    /\ Top(p) = "execute_tool"
    /\ Step(p, Done([op[p] EXCEPT
                !.tool_result = Some(execute_tool_call_global(Unwrap(op[p].tool), tool_ok))]))
    /\ UNCHANGED <<ctxVars, cards, sessions, disk, clock, nextText, started>>

-----------------------------------------------------------------------------
(* lib.rs: save_chat_message, the command by which the front end appends a
   message of its own to a history file *)

\* The messages of a tool round a front end stores after it ran a tool with
\* the execute_tool_call command: the assistant message with the directive,
\* then the tool message answering it.
FrontEndMessages(history) ==
    IF /\ history # <<>>
       /\ Last(history).role = "assistant"
       /\ Last(history).tool_calls \notin {None, Some(<<>>)}
    THEN {ChatMessage("tool", ToolResultText(ToolResult(TRUE, None)), None,
                      Some(Unwrap(Last(history).tool_calls)[1].id))}
    ELSE {ChatMessage("assistant", Text(nextText, TokenUnit),
                      Some(<<Directive(nextText, "edit_character", TRUE)>>), None)}

\* save_chat_message(character_id, message): one save_message on the
\* history file, no session involved.
SaveChatMessage(p, u) ==
    /\ Idle(p)
    /\ started < MaxStarted
    /\ started' = started + 1
    /\ \E message \in FrontEndMessages(disk[u]) :
            disk' = [disk EXCEPT ![u] = Append(@, message)]
    /\ nextText' = nextText + 1
    /\ UNCHANGED <<ctxVars, cards, sessions, op, clock, ghost>>

-----------------------------------------------------------------------------
(* The locks: the mutex of SESSION_MANAGER.sessions and the RwLock of
   TOOL_REGISTRY, with the steps taken while they are held *)

\* No other task holds the mutex of the session map.
LockFree(p) == \A q \in Tasks \ {p} : ~op[q].locked

\* get_or_create_session for an id that is not in the map: the mutex is
\* taken, the lookup finds nothing, the capacity check runs; the guard lives
\* until the function returns.
GetLock(p) ==
    /\ Top(p) = "get"
    /\ LockFree(p)
    /\ op[p].uuid \notin DOMAIN sessions
    /\ sessions' = after_capacity_check(sessions)
    /\ Step(p, [op[p] EXCEPT
                !.locked = TRUE,
                !.evicted = DOMAIN sessions \ DOMAIN after_capacity_check(sessions),
                !.todo = <<"load">> \o Tail(@)])
    /\ UNCHANGED <<ctxVars, cards, disk, clock, nextText, started>>

\* get_or_create_session, CharacterSession::load with the mutex held: the
\* persona and the history file are read, then the session is inserted and
\* the function returns, or load fails and the function returns the error.
LoadLocked(p) ==
    /\ Top(p) = "load"
    /\ LET created == load(op[p].uuid, disk[op[p].uuid], clock)
       IN \/ /\ sessions' = MapInsert(sessions, created.uuid, created)
             /\ StepWrite(p, Done([op[p] EXCEPT
                    !.s = Some(created),
                    !.base = ghost.writes[op[p].uuid] + 1,
                    !.created = TRUE,
                    !.locked = FALSE]))
             /\ clock' = clock + 1
          \/ /\ Step(p, Failed([op[p] EXCEPT !.locked = FALSE], "err"))
             /\ UNCHANGED <<sessions, clock>>
    /\ UNCHANGED <<ctxVars, cards, disk, nextText, started>>

\* The execute_tool_call command, step by step through
\* execute_tool_call_global.
BeginToolCall(p, tool_name) ==
    /\ Begin(p, [Command("tool", "", <<"lock_registry", "lookup", "run_tool">>)
                    EXCEPT !.tool = Some(tool_name)])

\* TOOL_REGISTRY.read(): a read lock, given as long as nobody writes (the
\* registry is written only when it is built).
LockRegistry(p) ==
    /\ Top(p) = "lock_registry"
    /\ Step(p, Done([op[p] EXCEPT !.reading = TRUE]))
    /\ UNCHANGED <<ctxVars, cards, sessions, disk, clock, nextText, started>>

\* A lookup that keeps the read guard for the execution of the tool.
LookupToolHolding(p) ==
    /\ Top(p) = "lookup"
    /\ Step(p, Done([op[p] EXCEPT
                !.tool_opt = IF Unwrap(op[p].tool) \in TOOL_REGISTRY THEN op[p].tool ELSE None]))
    /\ UNCHANGED <<ctxVars, cards, sessions, disk, clock, nextText, started>>

\* registry.tools.get(&tool_name).cloned(); the guard is dropped at the end
\* of the block.
LookupTool(p) ==
    /\ Top(p) = "lookup"
    /\ Step(p, Done([op[p] EXCEPT
                !.tool_opt = IF Unwrap(op[p].tool) \in TOOL_REGISTRY THEN op[p].tool ELSE None,
                !.reading = FALSE]))
    /\ UNCHANGED <<ctxVars, cards, sessions, disk, clock, nextText, started>>

\* tool.execute(app_handle, request).await, or the unknown-tool result.
RunTool(p, tool_ok) ==
    /\ Top(p) = "run_tool"
    /\ Step(p, Done([op[p] EXCEPT
                !.tool_result = Some(IF op[p].tool_opt # None THEN execute(tool_ok)
                                     ELSE ToolResult(FALSE, Some("Unknown tool"))),
                !.reading = FALSE]))
    /\ UNCHANGED <<ctxVars, cards, sessions, disk, clock, nextText, started>>

-----------------------------------------------------------------------------
(* A caller that owns one session and calls its methods in any order *)

MaxMethodCalls == 4

Call(p, o) ==
    /\ Top(p) = "call"
    /\ started < MaxMethodCalls
    /\ started' = started + 1
    /\ Step(p, o)
    /\ UNCHANGED <<ctxVars, cards, sessions, disk>>

\* The call of method `called` is recorded with the session and the history
\* file it found; o is the task after the call, `returned` what a method that
\* runs in one step returned.
Record(p, o, called, returned) ==
    [o EXCEPT !.called = called, !.returned = returned,
              !.log0 = Session(p).chat_history,
              !.cursor0 = Session(p).last_saved_index,
              !.disk0 = disk[op[p].uuid],
              !.removed = @ \/ (called \in {"delete", "delete_last"} /\ returned = "ok")]

CallAddUser(p) ==
    /\ Call(p, Record(p, [op[p] EXCEPT
                !.s = Some(add_user_message(Session(p), Text(nextText, TokenUnit), clock))],
                "add_user", "ok"))
    /\ clock' = clock + 1
    /\ nextText' = nextText + 1

CallAddAssistant(p) ==
    /\ Call(p, Record(p, [op[p] EXCEPT
                !.s = Some(add_assistant_message(Session(p), Text(nextText, TokenUnit),
                                                 None, clock))],
                "add_assistant", "ok"))
    /\ clock' = clock + 1
    /\ nextText' = nextText + 1

CallAddTool(p) ==
    /\ Call(p, Record(p, [op[p] EXCEPT
                !.s = Some(add_tool_message(Session(p), Text(nextText, TokenUnit),
                                            nextText, clock))],
                "add_tool", "ok"))
    /\ clock' = clock + 1
    /\ nextText' = nextText + 1

CallEdit(p, index) ==
    /\ Call(p, IF index >= Len(Session(p).chat_history)
               THEN Record(p, [op[p] EXCEPT !.index = index,
                                            !.text = Some(Text(nextText, TokenUnit))],
                           "edit", "err")
               ELSE Record(p, [op[p] EXCEPT
                        !.index = index,
                        !.text = Some(Text(nextText, TokenUnit)),
                        !.s = Some(edit_message(Session(p), index,
                                                Text(nextText, TokenUnit), clock))],
                        "edit", "ok"))
    /\ clock' = clock + 1
    /\ nextText' = nextText + 1

CallDelete(p, index) ==
    /\ Call(p, IF index >= Len(Session(p).chat_history)
               THEN Record(p, [op[p] EXCEPT !.index = index], "delete", "err")
               ELSE Record(p, [op[p] EXCEPT
                        !.index = index,
                        !.s = Some(delete_message(Session(p), index, clock))],
                        "delete", "ok"))
    /\ clock' = clock + 1
    /\ UNCHANGED nextText

CallDeleteLast(p) ==
    /\ Call(p, IF Session(p).chat_history = <<>>
               THEN Record(p, op[p], "delete_last", "err")
               ELSE Record(p, [op[p] EXCEPT
                        !.s = Some(delete_last_message(Session(p), clock))],
                        "delete_last", "ok"))
    /\ clock' = clock + 1
    /\ UNCHANGED nextText

CallClear(p) ==
    /\ Call(p, Record(p, [op[p] EXCEPT !.s = Some(clear_history(Session(p), clock))],
                      "clear", "ok"))
    /\ clock' = clock + 1
    /\ UNCHANGED nextText

\* save_history is entered; its steps are those of the commands.
CallSave(p) ==
    /\ Call(p, Record(p, [op[p] EXCEPT
                !.todo = <<"save", "call">>,
                !.retry = /\ op[p].called = "save"
                          /\ op[p].returned = "err"
                          /\ disk[op[p].uuid] # op[p].disk0
                          /\ op[p].cursor0 <= Len(op[p].log0)
                          /\ op[p].disk0 = SubSeq(op[p].log0, 1, op[p].cursor0)],
                "save", "none"))
    /\ UNCHANGED <<clock, nextText>>

\* rewrite_all_history is entered.
CallRewrite(p) ==
    /\ Call(p, Record(p, [op[p] EXCEPT !.todo = <<"rewrite", "call">>], "rewrite", "none"))
    /\ UNCHANGED <<clock, nextText>>

-----------------------------------------------------------------------------
(* Specifications of the session part *)

\* The durable logs a behaviour may start from: up to two alternating turns.
InitLogs == {GenHistory([i \in 1..k |-> TokenUnit]) : k \in 0..2}

\* The application after start-up: the manager is empty, the history file of
\* character "c1" holds a log written by earlier runs, no command runs.
InitMgr ==
    /\ ctxIn = None
    /\ ctxOut = None
    /\ sessions = [u \in {} |-> 0]
    /\ \E log \in InitLogs :
        /\ disk = [u \in Uuids |-> IF u = "c1" THEN log ELSE <<>>]
        /\ nextText = Len(log) + 1
    /\ cards = [u \in Uuids |-> <<>>]
    /\ op = [p \in Tasks |-> IdleOp]
    /\ clock = 1
    /\ started = 0
    /\ ghost = [expect |-> disk, failed |-> FALSE, writes |-> [u \in Uuids |-> 0]]

\* The steps of the commands that work on a session copy.
GetSteps(p) ==
    \/ GetExisting(p)
    \/ GetCreated(p)
    \/ GetLoadFails(p)
    \/ Update(p)

CopySteps(p) ==
    \/ GetSteps(p)
    \/ AddUser(p)
    \/ SaveMessage(p)
    \/ SaveMessageFails(p)

EditSteps(p) ==
    \/ Rewrite(p)
    \/ RewriteFails(p)
    \/ Edit(p)
    \/ Delete(p)
    \/ CheckLast(p)
    \/ CheckUser(p)
    \/ CheckContinue(p)

\* generate_ai_response with a provider that answers plainly or not at all.
PlainGenerateSteps(p) ==
    \/ Generate(p)
    \/ LoopSend(p)
    \/ RequestFails(p)
    \/ \E tool_calls \in {None, Some(<<>>)} : ReplyPlain(p, tool_calls)
    \/ AppendResponse(p)

\* The conversation commands on character "c1", edit and delete with an
\* index out of `indices`.
BeginConversation(p, indices) ==
    \/ BeginSend(p, "c1")
    \/ BeginContinue(p, "c1")
    \/ BeginRegenerate(p, "c1")
    \/ \E index \in indices : BeginEdit(p, "c1", index)
    \/ \E index \in indices : BeginDelete(p, "c1", index)

\* One command at a time.
NextSerial ==
    \/ BeginConversation(1, {0, 1})
    \/ CopySteps(1)
    \/ EditSteps(1)
    \/ PlainGenerateSteps(1)

SpecSerial == InitMgr /\ [][NextSerial]_vars

\* The application after start-up with the history file of "c1" holding a
\* conversation, or what a run that deleted its first message left of it: a
\* log that begins with a message of the assistant.
InitEvict ==
    /\ ctxIn = None
    /\ ctxOut = None
    /\ sessions = [u \in {} |-> 0]
    /\ \E log \in {GenHistory(<<TokenUnit, TokenUnit>>),
                   Tail(GenHistory(<<TokenUnit, TokenUnit>>))} :
        disk = [u \in Uuids |-> IF u = "c1" THEN log ELSE <<>>]
    /\ nextText = 3
    /\ cards = [u \in Uuids |-> <<>>]
    /\ op = [p \in Tasks |-> IdleOp]
    /\ clock = 1
    /\ started = 0
    /\ ghost = [expect |-> disk, failed |-> FALSE, writes |-> [u \in Uuids |-> 0]]

\* One command at a time: regenerate on "c1", loads of any character.
NextEvict ==
    \/ BeginRegenerate(1, "c1")
    \/ \E u \in Uuids : BeginLoad(1, u)
    \/ GetSteps(1)
    \/ CheckLast(1)
    \/ Rewrite(1)
    \/ RewriteFails(1)
    \/ CheckUser(1)
    \/ PlainGenerateSteps(1)
    \/ SaveMessage(1)
    \/ SaveMessageFails(1)
    \/ Notify(1)

SpecEvict == InitEvict /\ [][NextEvict]_vars

\* One command at a time, among them the front end's save_chat_message.
NextTurns ==
    \/ SaveChatMessage(1, "c1")
    \/ BeginConversation(1, {0, 1, 2})
    \/ CopySteps(1)
    \/ EditSteps(1)
    \/ PlainGenerateSteps(1)

SpecTurns == InitMgr /\ [][NextTurns]_vars

\* Two commands at a time on the same character.
MaxConcurrent == 2

NextConv ==
    \E p \in Tasks :
        \/ /\ started < MaxConcurrent
           /\ BeginConversation(p, {0})
        \/ CopySteps(p)
        \/ EditSteps(p)
        \/ PlainGenerateSteps(p)

SpecConv == InitMgr /\ [][NextConv]_vars

\* Commands on several characters sharing the pool.
NextPool ==
    \E p \in Tasks :
        \/ \E u \in Uuids : BeginLoad(p, u) \/ BeginUnload(p, u) \/ BeginDelete(p, u, 0)
        \/ GetSteps(p)
        \/ Delete(p)
        \/ Rewrite(p)
        \/ RewriteFails(p)
        \/ Peek(p)
        \/ SaveNothing(p)
        \/ Remove(p)
        \/ Notify(p)

SpecPool == InitMgr /\ [][NextPool]_vars

\* One command that generates a reply, the provider asking for tools at will,
\* one or two directives in a reply.
DirectiveCounts == {1, 2}

NextGen ==
    \/ /\ started = 0
       /\ BeginSend(1, "c1") \/ BeginContinue(1, "c1")
    \/ GetCreated(1)
    \/ GetLoadFails(1)
    \/ AddUser(1)
    \/ CheckContinue(1)
    \/ SaveMessage(1)
    \/ SaveMessageFails(1)
    \/ Update(1)
    \/ Generate(1)
    \/ LoopLimit(1)
    \/ LoopSend(1)
    \/ RequestFails(1)
    \/ \E n \in DirectiveCounts : \E failing \in 0..n : ReplyToolCalls(1, n, failing)
    \/ \E tool_calls \in {None, Some(<<>>)} : ReplyPlain(1, tool_calls)
    \/ AppendResponse(1)

\* The task is scheduled and the provider answers or the request fails.
SpecGen == InitMgr /\ [][NextGen]_vars /\ WF_vars(NextGen)

\* Commands of two tasks with the mutex of the session map: load, unload and
\* delete on the characters.
NextLocks ==
    \E p \in Tasks :
        \/ \E u \in Uuids : BeginLoad(p, u) \/ BeginUnload(p, u)
        \/ BeginDelete(p, "c1", 0)
        \/ LockFree(p) /\ GetExisting(p)
        \/ LockFree(p) /\ Peek(p)
        \/ LockFree(p) /\ Update(p)
        \/ LockFree(p) /\ Remove(p)
        \/ GetLock(p)
        \/ LoadLocked(p)
        \/ Delete(p)
        \/ Rewrite(p)
        \/ RewriteFails(p)
        \/ SaveNothing(p)
        \/ Notify(p)

SpecLocks == InitMgr /\ [][NextLocks]_vars

\* execute_tool_call commands of two tasks, step by step.
NextRegistry ==
    \E p \in Tasks :
        \/ \E tool_name \in TOOL_REGISTRY \cup {"no_such_tool"} : BeginToolCall(p, tool_name)
        \/ LockRegistry(p)
        \/ LookupTool(p)
        \/ \E tool_ok \in BOOLEAN : RunTool(p, tool_ok)

SpecRegistry == InitMgr /\ [][NextRegistry]_vars

\* One task that loads and unloads characters and deletes their first
\* message, one command after the other.
NextLoad ==
    \/ \E u \in Uuids : BeginLoad(1, u) \/ BeginUnload(1, u) \/ BeginDelete(1, u, 0)
    \/ GetSteps(1)
    \/ Delete(1)
    \/ Rewrite(1)
    \/ RewriteFails(1)
    \/ Peek(1)
    \/ SaveNothing(1)
    \/ Remove(1)
    \/ Notify(1)

SpecLoad == InitMgr /\ [][NextLoad]_vars

-----------------------------------------------------------------------------
(* tools/world_book_creator.rs: create_world_book_entry *)

WorldBookEntry(id, insertion_order, content) ==
    [id |-> id, insertion_order |-> insertion_order, content |-> content]

MaxOf(S) == IF S = {} THEN 0 ELSE CHOOSE m \in S : \A x \in S : x <= m

\* new_id: 1 for an empty book, else the largest id of the book plus one
\* (entries without an id do not count).
new_id(entries) ==
    IF entries = <<>> THEN 1
    ELSE MaxOf({Unwrap(e.id) : e \in {x \in Range(entries) : x.id # None}}) + 1

\* insertion_order: 1 for an empty book, else the largest one plus one.
insertion_order(entries) ==
    IF entries = <<>> THEN 1
    ELSE MaxOf({e.insertion_order : e \in Range(entries)}) + 1

\* The tool is invoked for character u with a fresh content.
BeginCreateEntry(p, u) ==
    /\ Begin(p, [Command("create_entry", u, <<"get_character", "update_character">>)
                    EXCEPT !.text = Some(Text(nextText, TokenUnit))])

\* Lines 30-253: the parameters are checked, the card is read from its file,
\* the entry is built and pushed onto the book of the copy read. The call ends
\* here with a failure when the file cannot be read or the parameters are
\* refused (valid = FALSE).
GetCharacter(p, valid) ==
    /\ Top(p) = "get_character"
    /\ LET entries == cards[op[p].uuid]
           entry == WorldBookEntry(Some(new_id(entries)), insertion_order(entries),
                                   Unwrap(op[p].text))
       IN op' = [op EXCEPT ![p] =
                    IF valid
                    THEN Done([@ EXCEPT !.character_data = Some(Append(entries, entry)),
                                        !.new_entry = Some(entry)])
                    ELSE Failed([@ EXCEPT !.tool_result = Some(ToolResult(FALSE, Some("error")))],
                                "err")]
    /\ UNCHANGED <<ctxVars, cards, sessions, disk, clock, nextText, started, ghost>>

\* Lines 255-299: update_character replaces the card in the file by the copy;
\* the result reports the failure of the write.
UpdateCharacter(p, written) ==
    /\ Top(p) = "update_character"
    /\ IF written
       THEN /\ cards' = [cards EXCEPT ![op[p].uuid] = Unwrap(op[p].character_data)]
            /\ op' = [op EXCEPT ![p] = Done([@ EXCEPT !.tool_result = Some(ToolResult(TRUE, None))])]
       ELSE /\ op' = [op EXCEPT ![p] =
                        Failed([@ EXCEPT !.tool_result = Some(ToolResult(FALSE, Some("error")))],
                               "err")]
            /\ UNCHANGED cards
    /\ UNCHANGED <<ctxVars, sessions, disk, clock, nextText, started, ghost>>

\* The books a card file may hold at start-up: none, one written by this tool,
\* and an imported one whose entry has no id.
InitBooks ==
    {<<>>,
     <<WorldBookEntry(Some(1), 1, Text(0, TokenUnit))>>,
     <<WorldBookEntry(None, 3, Text(0, TokenUnit))>>}

InitBook ==
    /\ ctxIn = None
    /\ ctxOut = None
    /\ sessions = [u \in {} |-> 0]
    /\ disk = [u \in Uuids |-> <<>>]
    /\ cards \in [Uuids -> InitBooks]
    /\ nextText = 1
    /\ op = [p \in Tasks |-> IdleOp]
    /\ clock = 1
    /\ started = 0
    /\ ghost = [expect |-> disk, failed |-> FALSE, writes |-> [u \in Uuids |-> 0]]

\* Two front-end invocations of the tool on character "c1" that may overlap.
NextBook ==
    \E p \in Tasks :
        \/ BeginCreateEntry(p, "c1")
        \/ \E valid \in BOOLEAN : GetCharacter(p, valid)
        \/ \E written \in BOOLEAN : UpdateCharacter(p, written)

SpecBook == InitBook /\ [][NextBook]_vars

\* The tool names a provider or a front end may send: the registered ones
\* and one that is not registered.
ToolNames == TOOL_REGISTRY \cup {"no_such_tool"}

\* The directives of the tool specification: a call that succeeds, one whose
\* tool fails, one whose arguments do not parse, a call of the second
\* registered tool, a call of an unknown tool.
DirectiveShapes ==
    {[name |-> "edit_character", arguments_ok |-> TRUE, tool_ok |-> TRUE],
     [name |-> "edit_character", arguments_ok |-> TRUE, tool_ok |-> FALSE],
     [name |-> "edit_character", arguments_ok |-> FALSE, tool_ok |-> TRUE],
     [name |-> "create_world_book_entry", arguments_ok |-> TRUE, tool_ok |-> TRUE],
     [name |-> "no_such_tool", arguments_ok |-> TRUE, tool_ok |-> TRUE]}

\* One command: a continue_chat whose provider sends one directive per
\* reply, of any shape, or a call of the execute_tool_call command.
NextTools ==
    \/ /\ started = 0
       /\ \/ BeginContinue(1, "c1")
          \/ \E tool_name \in ToolNames : BeginTool(1, tool_name)
    \/ \E tool_ok \in BOOLEAN : ExecuteTool(1, tool_ok)
    \/ GetCreated(1)
    \/ GetLoadFails(1)
    \/ CheckContinue(1)
    \/ SaveMessage(1)
    \/ SaveMessageFails(1)
    \/ Update(1)
    \/ Generate(1)
    \/ LoopLimit(1)
    \/ LoopSend(1)
    \/ RequestFails(1)
    \/ \E d \in DirectiveShapes : ReplyOneDirective(1, d.name, d.arguments_ok, d.tool_ok)
    \/ \E tool_calls \in {None, Some(<<>>)} : ReplyPlain(1, tool_calls)
    \/ AppendResponse(1)

SpecTools == InitMgr /\ [][NextTools]_vars

\* A caller that owns the session loaded for "c1" and calls its methods.
InitSession ==
    /\ ctxIn = None
    /\ ctxOut = None
    /\ sessions = [u \in {} |-> 0]
    /\ \E log \in InitLogs :
        /\ disk = [u \in Uuids |-> IF u = "c1" THEN log ELSE <<>>]
        /\ nextText = Len(log) + 1
        /\ op = [p \in Tasks |->
                    IF p = 1
                    THEN [Command("caller", "c1", <<"call">>)
                            EXCEPT !.s = Some(load("c1", log, 0))]
                    ELSE IdleOp]
    /\ cards = [u \in Uuids |-> <<>>]
    /\ clock = 1
    /\ started = 0
    /\ ghost = [expect |-> disk, failed |-> FALSE, writes |-> [u \in Uuids |-> 0]]

NextSession ==
    \/ CallAddUser(1)
    \/ CallAddAssistant(1)
    \/ CallAddTool(1)
    \/ \E index \in 0..2 : CallEdit(1, index)
    \/ \E index \in 0..2 : CallDelete(1, index)
    \/ CallDeleteLast(1)
    \/ CallClear(1)
    \/ CallSave(1)
    \/ CallRewrite(1)
    \/ SaveNothing(1)
    \/ SaveMessage(1)
    \/ SaveMessageFails(1)
    \/ SavePanics(1)
    \/ Rewrite(1)
    \/ RewriteFails(1)

SpecSession == InitSession /\ [][NextSession]_vars

-----------------------------------------------------------------------------
(* Properties of the tool-call loop and of generate_ai_response *)

InLoop(p) == Top(p) \in {"loop", "await"}

ToolMessages(o) == SelectSeq(o.pushed, LAMBDA m : m.role = "tool")

\* Function-call rounds of the loop so far: the assistant messages pushed.
Rounds(o) == Len(SelectSeq(o.pushed, LAMBDA m : m.role = "assistant"))

\* C11: a failing tool invocation does not abort the loop.  Every directive
\* handled has its tool message, in order, with the directive's tool_call_id;
\* for arguments that do not parse it carries the invalid-arguments failure,
\* for a tool that failed a failure; after every round the next request is
\* sent, and a loop left without a response ended by a request failure or by
\* the limit.
C11_ToolFailureDoesNotAbort ==
    \A p \in Tasks :
        LET o == op[p]
            tm == ToolMessages(o)
        IN /\ Len(tm) = Len(o.executed)
           /\ \A i \in 1..Len(tm) :
                /\ tm[i].tool_call_id = Some(o.executed[i].call.id)
                /\ ~o.executed[i].call.arguments_ok
                        => tm[i].content
                            = ToolResultText(ToolResult(FALSE, Some("Invalid tool arguments")))
                /\ ~o.executed[i].tool_ok => tm[i].content.id # -1
           /\ Top(p) = "loop" => o.requests = Rounds(o)
           /\ Top(p) = "await" => o.requests = Rounds(o) + 1
           /\ (o.requests >= 1 /\ ~InLoop(p) /\ o.response = None)
                    => o.result \in {"request", "cap"}

C11_Witness ==
    /\ op[1].response # None
    /\ op[1].result = "ok"
    /\ \E i, j \in 1..Len(op[1].executed) :
        /\ ~op[1].executed[i].call.arguments_ok
        /\ ~op[1].executed[j].tool_ok

\* C12: a directive naming a tool that is registered and advertised, with
\* arguments that parse, is answered by that tool's result, never by the
\* unknown-tool failure.
C12_AdvertisedToolIsDispatched ==
    \A p \in Tasks :
        \A i \in 1..Len(op[p].executed) :
            LET e == op[p].executed[i]
            IN (e.call.name \in get_available_tools_global /\ e.call.arguments_ok)
                    => ToolMessages(op[p])[i].content
                        # ToolResultText(ToolResult(FALSE, Some("Unknown tool")))

\* C13: the request of every round has a history segment within the history
\* sub-reservation (the segment is what the context build kept plus what the
\* loop pushed since).
C13_EveryRequestWithinHistoryBudget ==
    \A p \in Tasks :
        Top(p) = "await"
            => count_messages_tokens(op[p].request \o op[p].pushed) <= history_reserved

\* The provider call of the command failed.
RequestFailed(p) == ~op[p].only_calls /\ op[p].response = None

\* C14: when the provider call fails the loop ends at once with an error:
\* the command has ended with the request error, and no request is sent
\* afterwards.
C14_RequestFailureAborts ==
    /\ [](\A p \in Tasks : RequestFailed(p) => (Idle(p) /\ op[p].result = "request"))
    /\ [][\A p \in Tasks : RequestFailed(p) => op'[p].requests = op[p].requests]_vars

C14_Witness ==
    /\ RequestFailed(1)
    /\ op[1].requests = 3
    /\ op[1].result = "request"

\* C15: a tool name that is not registered gets a ToolResult with
\* success = false and an error text: the execute_tool_call command ends
\* normally with that result, and in the loop the directive gets its tool
\* message with the unknown-tool failure.
C15_UnknownToolIsAResult ==
    \A p \in Tasks :
        /\ (op[p].kind = "tool" /\ Idle(p) /\ Unwrap(op[p].tool) \notin TOOL_REGISTRY)
                => /\ op[p].result = "ok"
                   /\ op[p].tool_result = Some(ToolResult(FALSE, Some("Unknown tool")))
        /\ \A i \in 1..Len(op[p].executed) :
            LET e == op[p].executed[i]
            IN (e.call.name \notin TOOL_REGISTRY /\ e.call.arguments_ok)
                    => ToolMessages(op[p])[i].content
                        = ToolResultText(ToolResult(FALSE, Some("Unknown tool")))

C15_Witness ==
    /\ op[1].kind = "tool"
    /\ Idle(1)
    /\ op[1].tool = Some("no_such_tool")
    /\ op[1].tool_result # None

\* Task p is the caller that owns a session and calls its methods.
Caller(p) == op[p].kind = "caller"

\* C16: as long as no message was removed from the log (appends, saves,
\* edits, clears and rewrites only) the cursor is at most the log length; the
\* cursor never decreases except in clear_history, and in rewrite_all_history
\* after a message was removed.
C16_CursorMonotone ==
    /\ [](\A p \in Tasks :
            (Caller(p) /\ ~op[p].removed)
                => Session(p).last_saved_index <= Len(Session(p).chat_history))
    /\ [][\A p \in Tasks :
            (Caller(p) /\ Unwrap(op'[p].s).last_saved_index < Session(p).last_saved_index)
                => \/ Top(p) = "call" /\ op'[p].called = "clear"
                   \/ Top(p) = "rewrite" /\ op[p].removed]_vars

C16_Witness ==
    /\ Caller(1) /\ ~op[1].removed
    /\ op[1].called = "save" /\ op[1].returned = "ok"
    /\ Session(1).last_saved_index > op[1].cursor0
    /\ \E i \in 1..Len(Session(1).chat_history) : Session(1).chat_history[i].role = "tool"

\* C17: save_history appends to the history file the messages from the cursor
\* on, in log order, each once, and nothing else; when it has succeeded the
\* cursor is the log length; with nothing unsaved the file is left as it was.
C17_SaveAppendsUnsaved ==
    \A p \in Tasks :
        (Caller(p) /\ op[p].called = "save")
            => LET o == op[p]
               IN /\ Session(p).chat_history = o.log0
                  /\ Top(p) = "save"
                        => /\ Session(p).last_saved_index = o.cursor0
                           /\ o.written > 0 => o.cursor0 + o.written <= Len(o.log0)
                           /\ disk[o.uuid]
                                = o.disk0 \o SubSeq(o.log0, o.cursor0 + 1, o.cursor0 + o.written)
                  /\ o.returned = "ok"
                        => /\ disk[o.uuid] = o.disk0 \o SubSeq(o.log0, o.cursor0 + 1, Len(o.log0))
                           /\ Session(p).last_saved_index = Len(o.log0)

C17_Witness ==
    /\ Caller(1)
    /\ op[1].called = "save" /\ op[1].returned = "ok"
    /\ op[1].cursor0 > 0
    /\ op[1].cursor0 + 2 <= Len(op[1].log0)

\* C18: edit_chat_message, delete_chat_message and regenerate_last rewrite
\* the history file before they store the session: whenever one of them is
\* about to call update_session, the history file is the session's log,
\* message for message, and the cursor is the log length.
C18_RewriteBeforeUpdate ==
    \A p \in Tasks :
        (op[p].kind \in {"edit", "delete", "regenerate"} /\ Top(p) = "update")
            => /\ disk[op[p].uuid] = Session(p).chat_history
               /\ Session(p).last_saved_index = Len(Session(p).chat_history)

C18_Witness ==
    /\ op[1].kind = "delete"
    /\ Top(1) = "update"
    /\ Session(1).chat_history # <<>>
    /\ op[1].index = 0

\* C19: when save_history or rewrite_all_history has returned an error, the
\* log and the cursor are what they were when it was called.
C19_FailedSaveLeavesSession ==
    \A p \in Tasks :
        (Caller(p) /\ op[p].called \in {"save", "rewrite"} /\ op[p].returned = "err")
            => /\ Session(p).chat_history = op[p].log0
               /\ Session(p).last_saved_index = op[p].cursor0

C19_Witness ==
    /\ Caller(1)
    /\ op[1].called = "save" /\ op[1].returned = "err"
    /\ op[1].cursor0 < Len(op[1].log0)
    /\ disk["c1"] # op[1].disk0

\* C20: edit_message and delete_message with an index past the log and
\* delete_last_message on an empty log return an error and leave log and
\* cursor alone; with a valid index edit_message changes the content of that
\* message only, delete_message removes that message only.
C20_EditDeleteByIndex ==
    \A p \in Tasks :
        Caller(p) =>
            LET o == op[p]
                log == Session(p).chat_history
                same == log = o.log0 /\ Session(p).last_saved_index = o.cursor0
            IN /\ (o.called \in {"edit", "delete"} /\ o.index >= Len(o.log0))
                    => (o.returned = "err" /\ same)
               /\ (o.called = "delete_last" /\ o.log0 = <<>>)
                    => (o.returned = "err" /\ same)
               /\ (o.called = "edit" /\ o.index < Len(o.log0))
                    => /\ o.returned = "ok"
                       /\ Len(log) = Len(o.log0)
                       /\ \A i \in 1..Len(log) :
                            log[i] = IF i = o.index + 1
                                     THEN [o.log0[i] EXCEPT !.content = Unwrap(o.text)]
                                     ELSE o.log0[i]
                       /\ Session(p).last_saved_index = o.cursor0
               /\ (o.called = "delete" /\ o.index < Len(o.log0))
                    => /\ o.returned = "ok"
                       /\ Len(log) = Len(o.log0) - 1
                       /\ \A i \in 1..Len(log) :
                            log[i] = IF i <= o.index THEN o.log0[i] ELSE o.log0[i + 1]
                       /\ Session(p).last_saved_index = o.cursor0

C20_Witness ==
    /\ Caller(1)
    /\ op[1].called = "edit" /\ op[1].returned = "ok"
    /\ op[1].index = 1
    /\ op[1].log0[2].role = "assistant"
    /\ Len(op[1].log0) = 3

\* Task p takes the step that returns from get_or_create_session with a
\* session.
GetReturns(p) == Top(p) = "get" /\ op'[p].s # None

\* C21: get_or_create_session for an id that is not in the map returns a
\* session with status Active whose log is the history file, in order, and
\* whose cursor is the number of loaded messages, and stores it; for an id in
\* the map it returns a copy of the stored session and leaves map and history
\* file as they are.
C21_GetOrCreate ==
    [][\A p \in Tasks :
        GetReturns(p) =>
            LET u == op[p].uuid
                session == Unwrap(op'[p].s)
            IN IF u \in DOMAIN sessions
               THEN /\ session = sessions[u]
                    /\ sessions' = sessions
                    /\ disk' = disk
               ELSE /\ session.status = "Active"
                    /\ session.chat_history = disk[u]
                    /\ session.last_saved_index = Len(disk[u])
                    /\ u \in DOMAIN sessions' /\ sessions'[u] = session
                    /\ disk' = disk]_vars

C21_Witness ==
    /\ op[1].kind = "load"
    /\ op[1].created
    /\ Top(1) = "notify"
    /\ Len(Session(1).chat_history) = 1
    /\ ghost.writes[op[1].uuid] > 1

\* The stored sessions with the least last_active.
Oldest(map) == {u \in DOMAIN map : \A v \in DOMAIN map : map[u].last_active <= map[v].last_active}

\* C22: when get_or_create_session creates a session with the map at (or
\* over) max_sessions, exactly one stored session leaves the map, one of the
\* oldest, and the new one is in the map afterwards; below max_sessions the
\* map only gains the new session.
C22_EvictOldestWhenFull ==
    [][\A p \in Tasks :
        (GetReturns(p) /\ op[p].uuid \notin DOMAIN sessions) =>
            LET u == op[p].uuid
            IN IF Cardinality(DOMAIN sessions) >= max_sessions
               THEN \E e \in Oldest(sessions) :
                        /\ DOMAIN sessions' = (DOMAIN sessions \ {e}) \cup {u}
                        /\ \A v \in DOMAIN sessions \ {e} : sessions'[v] = sessions[v]
               ELSE /\ DOMAIN sessions' = DOMAIN sessions \cup {u}
                    /\ \A v \in DOMAIN sessions : sessions'[v] = sessions[v]]_vars

C22_Witness ==
    /\ op[1].created
    /\ op[1].evicted # {}
    /\ Top(1) = "notify"
    /\ Cardinality(DOMAIN sessions) = max_sessions

\* C23: once unload_session has removed a session from the map, every
\* message of that session's log is in the history file.
C23_UnloadedLogIsDurable ==
    \A p \in Tasks :
        (op[p].kind = "unload" /\ op[p].unloaded # None)
            => \A i \in 1..Len(Unwrap(op[p].unloaded).chat_history) :
                    Unwrap(op[p].unloaded).chat_history[i] \in Range(op[p].disk0)

\* The steps that read or write the history store, call the provider or run
\* a tool.
IoSteps == {"load", "save", "rewrite", "loop", "await", "execute_tool", "run_tool"}

\* C24: no read or write of the history store, provider call or tool run
\* happens while the mutex of the session map is held.
C24_NoIoUnderSessionLock ==
    \A p \in Tasks : op[p].locked => Top(p) \notin IoSteps

\* C25: execute_tool_call_global holds the read lock of the tool registry
\* only for the lookup: whoever holds it is at the lookup, nobody holds it
\* while a tool runs, and the result is that of the tool looked up.
C25_RegistryLockOnlyForLookup ==
    \A p \in Tasks :
        /\ op[p].reading => Top(p) = "lookup"
        /\ Top(p) = "run_tool" =>
                /\ ~op[p].reading
                /\ op[p].tool_opt = IF Unwrap(op[p].tool) \in TOOL_REGISTRY
                                    THEN op[p].tool ELSE None

C25_Witness ==
    /\ Top(1) = "run_tool"
    /\ op[1].tool_opt # None
    /\ op[2].reading

\* C26: when an event could not be sent (message-sent after the user turn was
\* appended; message-received, token-stats or progress after the reply was
\* appended), the command does not fail, and once it has ended the turns of
\* its session are in the history file and the session is stored.
C26_EventFailureIsHarmless ==
    \A p \in Tasks :
        op[p].event_failed =>
            /\ op[p].result # "err"
            /\ Idle(p) => /\ disk[op[p].uuid] = Session(p).chat_history
                          /\ op[p].uuid \in DOMAIN sessions
                          /\ sessions[op[p].uuid] = Session(p)

\* Every tool message of the log carries a tool_call_id and comes after an
\* assistant message one of whose directives has that id.
ToolTurnsAnswerDirectives(log) ==
    \A i \in 1..Len(log) :
        log[i].role = "tool" =>
            /\ log[i].tool_call_id # None
            /\ \E j \in 1..(i - 1) :
                /\ log[j].role = "assistant"
                /\ log[j].tool_calls # None
                /\ \E k \in 1..Len(Unwrap(log[j].tool_calls)) :
                        Unwrap(log[j].tool_calls)[k].id = Unwrap(log[i].tool_call_id)

\* C27: in the log of every session, stored or a command's copy, each tool
\* message carries a tool_call_id and is preceded by an assistant message
\* whose directives include that id.
C27_ToolTurnsFollowTheirDirective ==
    /\ \A u \in DOMAIN sessions : ToolTurnsAnswerDirectives(sessions[u].chat_history)
    /\ \A p \in Tasks : op[p].s # None => ToolTurnsAnswerDirectives(Session(p).chat_history)

\* The assistant message generate_ai_response appends for the final reply.
FinalTurn(o) ==
    ChatMessage("assistant", Unwrap(o.response).content, Unwrap(o.response).tool_calls, None)

\* C10: a successful generate_ai_response extends the log by the messages of
\* every function-call round (the assistant message with its n directives,
\* then n tool messages in directive order with the matching tool_call_id)
\* and then by one plain assistant message, all of them saved.
C10_GenerateExtendsLogByRounds ==
    \A p \in Tasks :
        (op[p].kind \in {"send", "continue"} /\ op[p].result = "ok")
            => /\ Session(p).chat_history = op[p].log0 \o op[p].pushed \o <<FinalTurn(op[p])>>
               /\ Session(p).last_saved_index = Len(Session(p).chat_history)

-----------------------------------------------------------------------------
(* Properties of the session and of the session manager *)

\* C2: the map of the session manager never holds more than max_sessions
\* sessions, whatever the interleaving of the commands.
C2_PoolWithinCapacity == Cardinality(DOMAIN sessions) <= max_sessions

\* C3: the cursor of a session never exceeds the length of its log, after
\* any sequence of calls of its methods, failing ones included.
C3_CursorWithinLog ==
    \A p \in Tasks :
        op[p].s # None => Session(p).last_saved_index <= Len(Session(p).chat_history)

UserTurn(o) == ChatMessage("user", Unwrap(o.text), None, None)

\* Two send commands that work on copies of the same stored session.
SameSnapshot(p, q) ==
    /\ p # q
    /\ op[p].kind = "send" /\ op[q].kind = "send"
    /\ op[p].uuid = op[q].uuid
    /\ op[p].s # None /\ op[q].s # None
    /\ op[p].base = op[q].base

\* C8: two commands that took their copies of one session before either
\* wrote back lose an update: the stored log never holds the user turns of
\* both, the later update_session replaces what the earlier one stored.
C8_SnapshotUpdatesAreLost ==
    \A p, q \in Tasks :
        (SameSnapshot(p, q) /\ op[p].uuid \in DOMAIN sessions)
            => LET stored == sessions[op[p].uuid].chat_history
               IN ~(UserTurn(op[p]) \in Range(stored) /\ UserTurn(op[q]) \in Range(stored))

C8_Witness ==
    \E p, q \in Tasks :
        /\ SameSnapshot(p, q)
        /\ op[p].result = "ok" /\ op[q].result = "ok"
        /\ op[p].uuid \in DOMAIN sessions
        /\ UserTurn(op[p]) \notin Range(sessions[op[p].uuid].chat_history)
        /\ UserTurn(op[q]) \in Range(sessions[op[p].uuid].chat_history)

-----------------------------------------------------------------------------
(* Properties of the context builder *)

ctxBook == Unwrap(ctxIn.character_data.character_book)
ctxResult == Unwrap(ctxOut)
ctxBuiltWithBook == ctxOut # None /\ ctxIn.character_data.character_book # None

IsPrefix(s, t) == Len(s) <= Len(t) /\ s = SubSeq(t, 1, Len(s))
IsSuffix(s, t) == Len(s) <= Len(t) /\ s = SubSeq(t, Len(t) - Len(s) + 1, Len(t))

\* Token count of the last k turns of a log.
SuffixTokens(log, k) ==
    SumSeq([i \in 1..k |-> count_message_tokens(log[Len(log) - k + i])])

\* C4: every segment of a built context respects its own sub-reservation.
C4_EachSegmentWithinReservation ==
    ctxOut # None =>
        /\ ctxResult.token_allocation.system <= system_reserved
        /\ ctxResult.token_allocation.character <= character_reserved
        /\ ctxResult.token_allocation.worldbook <= worldbook_reserved
        /\ ctxResult.token_allocation.history <= history_reserved

\* C5: the history segment is the longest suffix of the log whose token count
\* is within the history sub-reservation, in the log's order.
C5_HistoryIsLongestFittingSuffix ==
    ctxOut # None =>
        LET log == ctxIn.chat_history
            fitting == {k \in 0..Len(log) : SuffixTokens(log, k) <= history_reserved}
            longest == CHOOSE k \in fitting : \A j \in fitting : j <= k
        IN /\ IsSuffix(ctxResult.history_messages, log)
           /\ Len(ctxResult.history_messages) = longest

C5_Witness ==
    /\ ctxOut # None
    /\ Len(ctxResult.history_messages) > 0
    /\ Len(ctxResult.history_messages) < Len(ctxIn.chat_history)

\* C6: the included knowledge entries are a prefix of the ranked order (no
\* entry ranked behind a rejected one is included).
C6_IncludedIsPrefixOfRanking ==
    ctxBuiltWithBook => IsPrefix(ctxResult.worldbook, ranked_entries(ctxBook))

\* C7: every rendered knowledge entry is a whole entry of the book, and the
\* knowledge token count of the context is the sum of the costs of the
\* included entries and is within the knowledge sub-reservation.
C7_KnowledgeTokensAreIncludedCosts ==
    ctxBuiltWithBook =>
        /\ \A i \in 1..Len(ctxResult.worldbook) :
                ctxResult.worldbook[i].entry \in Range(ctxBook.entries)
        /\ ctxResult.token_allocation.worldbook
               = SumSeq([i \in 1..Len(ctxResult.worldbook) |->
                            ctxResult.worldbook[i].token_count])
        /\ ctxResult.token_allocation.worldbook <= worldbook_reserved

\* C28: after any invocations of create_world_book_entry on one character,
\* two overlapping ones included, the ids of the book are pairwise distinct,
\* the entry of every invocation that reported success is in the book, and it
\* has a larger id and a larger insertion order than every entry before it.
C28_CreatedEntriesDistinctAndKept ==
    \A p \in Tasks :
        (op[p].kind = "create_entry" /\ op[p].result = "ok") =>
            LET book == cards[op[p].uuid]
                entry == Unwrap(op[p].new_entry)
            IN /\ \A i, j \in 1..Len(book) :
                    (i # j /\ book[i].id # None) => book[i].id # book[j].id
               /\ \E i \in 1..Len(book) :
                    /\ book[i] = entry
                    /\ \A j \in 1..(i - 1) :
                        /\ book[j].insertion_order < entry.insertion_order
                        /\ book[j].id # None => Unwrap(book[j].id) < Unwrap(entry.id)

\* C29: the knowledge entries are taken in descending order of their score,
\* entries of equal score in the order they have in the book: the ranking is
\* a rearrangement of the book in that order, and the included entries
\* follow it.
RankedBefore(a, b) ==
    \/ a.importance_score > b.importance_score
    \/ a.importance_score = b.importance_score /\ a.entry.id < b.entry.id

C29_DescendingScoreStableTies ==
    ctxBuiltWithBook =>
        LET ranked == ranked_entries(ctxBook)
        IN /\ Len(ranked) = Len(ctxBook.entries)
           /\ {ranked[i].entry : i \in 1..Len(ranked)} = Range(ctxBook.entries)
           /\ \A i, j \in 1..Len(ranked) : i < j => RankedBefore(ranked[i], ranked[j])
           /\ \A i, j \in 1..Len(ctxResult.worldbook) :
                i < j => RankedBefore(ctxResult.worldbook[i], ctxResult.worldbook[j])

\* A book where the ranking moves an entry forward and where two entries tie.
C29_Witness ==
    /\ ctxBuiltWithBook
    /\ \E i, j \in 1..Len(ctxBook.entries) :
        /\ i < j
        /\ calculate_entry_importance(ctxBook.entries[i])
                < calculate_entry_importance(ctxBook.entries[j])
    /\ \E i, j \in 1..Len(ctxBook.entries) :
        /\ i < j
        /\ calculate_entry_importance(ctxBook.entries[i])
                = calculate_entry_importance(ctxBook.entries[j])
    /\ Len(ctxResult.worldbook) > 1

\* C30 as stated: the score is 1.0, plus 2.0 if the entry is enabled, plus
\* 0.5 times the priority if one is present, plus 0.3 times the number of
\* keywords, plus 0.2 times log10 of the word count if the content is not
\* empty (in tenths).
C30_ScoreAsStated ==
    ctxOut # None =>
        Unwrap(ctxOut) = 10
                         + (IF ctxIn.enabled THEN 20 ELSE 0)
                         + (IF ctxIn.priority # None THEN Unwrap(ctxIn.priority) * 5 ELSE 0)
                         + ctxIn.keys * 3
                         + (IF ctxIn.chars > 0 THEN Log10(ctxIn.words) * 2 ELSE 0)

\* C30, amended: the priority counts if it is present and not negative, and
\* the word count counts if the content has at least one word.
C30_Score ==
    ctxOut # None =>
        LET enabled == IF ctxIn.enabled THEN 20 ELSE 0
            priority == IF ctxIn.priority # None /\ Unwrap(ctxIn.priority) >= 0
                        THEN Unwrap(ctxIn.priority) * 5 ELSE 0
            keywords == ctxIn.keys * 3
            length == IF ctxIn.words >= 100 THEN 4
                      ELSE IF ctxIn.words >= 10 THEN 2 ELSE 0
        IN Unwrap(ctxOut) = 10 + enabled + priority + keywords + length

\* An enabled entry with a priority, keywords and a content of many words
\* has been scored.
C30_Witness ==
    /\ ctxOut # None
    /\ ctxIn.enabled
    /\ ctxIn.priority = Some(3)
    /\ ctxIn.keys = 2
    /\ ctxIn.words = 100
    /\ Unwrap(ctxOut) = 55

EndsWithUserTurn(u, text) ==
    /\ u \in DOMAIN sessions
    /\ sessions[u].chat_history # <<>>
    /\ Last(sessions[u].chat_history).role = "user"
    /\ Last(sessions[u].chat_history).content = text
    /\ disk[u] # <<>>
    /\ Last(disk[u]) = Last(sessions[u].chat_history)
    /\ sessions[u].last_saved_index = Len(sessions[u].chat_history)

\* C32: a send_chat_message whose generate_ai_response fails leaves the user
\* message as the last one of the stored session and of the history file,
\* the stored cursor at the end of the log.
C32_UserTurnKeptWhenGenerationFails ==
    \A p \in DOMAIN op :
        (op[p].kind = "send" /\ Idle(p) /\ op[p].generating /\ op[p].result # "ok")
            => EndsWithUserTurn(op[p].uuid, Unwrap(op[p].text))

\* A send whose request to the provider failed.
C32_Witness ==
    /\ op[1].kind = "send"
    /\ Idle(1)
    /\ op[1].generating
    /\ op[1].result = "request"
    /\ op[1].requests > 0

\* C33: a regenerate_last_message that returns an error from one of its
\* checks (empty log, last message not from the assistant, message before it
\* not from the user) leaves the history file as it was when the command got
\* the session, and the stored log equal to it if it was.
C33_FailedRegenerateChangesNothing ==
    [][\A p \in DOMAIN op :
        (/\ op[p].kind = "regenerate"
         /\ Top(p) \in {"check_last", "check_user"}
         /\ op'[p].result = "err")
            => LET u == op[p].uuid
               IN /\ disk'[u] = op[p].disk0
                  /\ sessions[u].chat_history = op[p].disk0
                        => sessions'[u].chat_history = disk'[u]]_vars

\* C34: every session in the map has its cursor at the end of its log, and a
\* session that get_or_create_session evicts holds no message that is not in
\* its history file.
C34_EvictionDiscardsNoUnsavedTurn ==
    [][/\ \A u \in DOMAIN sessions' :
            sessions'[u].last_saved_index = Len(sessions'[u].chat_history)
       /\ \A p \in DOMAIN op : \A u \in DOMAIN sessions :
            (Top(p) = "get" /\ u \notin DOMAIN sessions')
                => Range(sessions[u].chat_history) \subseteq Range(disk[u])]_vars

\* C35: a get_or_create_session that returns an error leaves the map as it
\* was: no session evicted, none inserted, also with the pool full.
C35_FailedGetLeavesRegistry ==
    [][\A p \in DOMAIN op :
        (Top(p) = "get" /\ op'[p].result = "err") => sessions' = sessions]_vars

\* C36: when save_history has failed after writing some of the unsaved
\* messages and the caller calls it again with success, the history file
\* holds every message of the log once, in log order.
C36_RetriedSaveWritesEachTurnOnce ==
    \A p \in Tasks :
        (Caller(p) /\ op[p].called = "save" /\ op[p].retry /\ op[p].returned = "ok")
            => disk[op[p].uuid] = Session(p).chat_history

\* C37: when generate_ai_response ends with a failed request or with the
\* loop limit, tool rounds executed or not, the session's log, the stored
\* session and the history file are what they were when it was entered.
C37_AbortedGenerationAppendsNothing ==
    \A p \in DOMAIN op :
        (op[p].generating /\ Idle(p) /\ op[p].result \in {"request", "cap"})
            => /\ Session(p).chat_history = op[p].log0
               /\ StoredSession(op[p].uuid) = op[p].stored0
               /\ disk[op[p].uuid] = op[p].disk0

\* The request failed after a tool round had run.
C37_Witness ==
    /\ op[1].generating
    /\ Idle(1)
    /\ op[1].result = "request"
    /\ op[1].executed # <<>>
    /\ op[1].requests > 1

\* C38: in every built context each tool message of the history segment
\* comes after the assistant message of the segment that carries its
\* directive.
C38_HistoryKeepsDirectiveOfToolTurn ==
    ctxOut # None => ToolTurnsAnswerDirectives(ctxResult.history_messages)

\* C39: every request send_chat_message, continue_chat and
\* regenerate_last_message send is built from a log that is not empty and
\* ends with a message of the user; continue_chat and regenerate_last_message
\* that end without entering generate_ai_response have returned an error and
\* sent nothing.
C39_RequestsFollowAUserTurn ==
    \A p \in DOMAIN op :
        op[p].kind \in {"send", "continue", "regenerate"} =>
            /\ (op[p].generating \/ op[p].requests > 0)
                    => /\ op[p].log0 # <<>>
                       /\ Last(op[p].log0).role = "user"
            /\ Top(p) \in {"loop", "await"} => Session(p).chat_history = op[p].log0
            /\ (op[p].kind # "send" /\ Idle(p) /\ ~op[p].generating)
                    => (op[p].result = "err" /\ op[p].requests = 0)

\* A regenerate_last_message waits for the reply to its request; the stored
\* log it was built from ends with the user's message.
C39_Witness ==
    /\ op[1].kind = "regenerate"
    /\ Top(1) = "await"
    /\ op[1].requests > 0
    /\ Last(sessions["c1"].chat_history).role = "user"

=============================================================================
